---- MODULE Spec2Model ----
(***************************************************************************)
(* Code skeleton extraction of OpenViking (openviking/parse/parsers/code/  *)
(* ast): the skeleton serializer to_text, the per-language adapters and    *)
(* the facade extract_skeleton with its adapter registry.                  *)
(*                                                                         *)
(* Text is modelled as a sequence of one-character strings, so that strip, *)
(* split, join and lower act on characters as the Python code does.        *)
(***************************************************************************)
EXTENDS Integers, Sequences, FiniteSets, TLC

VARIABLES
    skel,      \* the CodeSkeleton produced by an adapter's extract
    rendered,  \* whether to_text has been called on skel
    verbose,   \* the verbose flag of the latest to_text call
    text,      \* the text returned by the latest to_text call
    cache,     \* the registry's adapter cache: a set of [lang, inst] entries
    built,     \* per language, how many times its adapter class was constructed
    handed,    \* per language, the adapter instances the registry has handed out
    requested, \* the languages some call has asked the registry for
    last,      \* the latest facade call: its arguments and its outcome
    pin,       \* one earlier facade call, remembered to compare results
    thr,       \* per thread, its position inside a facade call
    tree       \* the syntax tree the parser returned to the adapter: [lang, root]

textVars == <<skel, rendered, verbose, text>>
registryVars == <<cache, built, handed, requested>>
callVars == <<last, pin>>

vars == <<skel, rendered, verbose, text, cache, built, handed, requested, last, pin, thr, tree>>

\* no content has been parsed
NoTree == [lang |-> "none", root |-> <<>>]

(***************************************************************************)
(* Characters and Python's str operations                                  *)
(***************************************************************************)
NL == "\n"
SP == " "
DQ == "\""

\* Python's str.strip() with no argument strips these.
Whitespace == {" ", "\n", "\t", "\r"}

SetMax(S) == CHOOSE m \in S : \A n \in S : n <= m

\* the first index from i on whose character is not in chars, Len(s) + 1 if none
RECURSIVE FirstKept(_, _, _)
FirstKept(s, chars, i) ==
    IF i > Len(s) THEN i
    ELSE IF s[i] \in chars THEN FirstKept(s, chars, i + 1) ELSE i

\* the last index up to i whose character is not in chars, 0 if none
RECURSIVE LastKept(_, _, _)
LastKept(s, chars, i) ==
    IF i < 1 THEN i
    ELSE IF s[i] \in chars THEN LastKept(s, chars, i - 1) ELSE i

\* str.strip(chars) for a set of characters
StripChars(s, chars) ==
    SubSeq(s, FirstKept(s, chars, 1), LastKept(s, chars, Len(s)))

\* str.strip()
Strip(s) == StripChars(s, Whitespace)

\* str.split(sep) for a one-character separator: never an empty list
RECURSIVE Split(_, _)
Split(s, sep) ==
    LET i == FirstKept(s, {c \in {s[k] : k \in 1..Len(s)} : c # sep}, 1)
    IN  IF i > Len(s) THEN <<s>>
        ELSE <<SubSeq(s, 1, i - 1)>> \o Split(SubSeq(s, i + 1, Len(s)), sep)

\* sep.join(parts)
RECURSIVE Join(_, _)
Join(parts, sep) ==
    IF parts = <<>> THEN <<>>
    ELSE IF Len(parts) = 1 THEN parts[1]
    ELSE parts[1] \o sep \o Join(Tail(parts), sep)

\* the concatenation of a sequence of sequences (list.extend in a loop)
RECURSIVE Flatten(_)
Flatten(ss) == IF ss = <<>> THEN <<>> ELSE ss[1] \o Flatten(Tail(ss))

\* re.sub(r"\s+", " ", s): every run of whitespace becomes one space
RECURSIVE CollapseWs(_)
CollapseWs(s) ==
    IF s = <<>> THEN <<>>
    ELSE IF s[1] \in Whitespace
         THEN IF Len(s) > 1 /\ s[2] \in Whitespace
              THEN CollapseWs(Tail(s))
              ELSE <<SP>> \o CollapseWs(Tail(s))
         ELSE <<s[1]>> \o CollapseWs(Tail(s))

(***************************************************************************)
(* skeleton.py                                                             *)
(***************************************************************************)
QQQ == <<DQ, DQ, DQ>>
Indent1 == <<SP, SP>>
Indent2 == <<SP, SP, SP, SP>>

_compact_params(params) == StripChars(Strip(CollapseWs(params)), {","})

FunctionSig(name, params, return_type, docstring) ==
    [name |-> name, params |-> params, return_type |-> return_type,
     docstring |-> docstring]

ClassSkeleton(name, bases, docstring, methods) ==
    [name |-> name, bases |-> bases, docstring |-> docstring, methods |-> methods]

CodeSkeleton(file_name, language, module_doc, imports, classes, functions) ==
    [file_name |-> file_name, language |-> language, module_doc |-> module_doc,
     imports |-> imports, classes |-> classes, functions |-> functions]

\* mutant: the whole docstring is taken as its first line
_doc_first_whole(raw) == Strip(raw)

\* _doc: first = raw.split("\n")[0].strip()
_doc_first(raw) == Strip(Split(raw, NL)[1])

\* mutant: blank lines of the docstring are filtered out, as the block-comment
\* parsers of the adapters do
_doc_lines_nonblank(raw) ==
    SelectSeq(Split(Strip(raw), NL), LAMBDA l : Strip(l) # <<>>)

\* _doc: doc_lines = raw.strip().split("\n")
_doc_lines(raw) == Split(Strip(raw), NL)

\* mutant: the verbose mode closes every docstring on a line of its own
_doc_closing_line(raw, indent, verb) ==
    IF raw = <<>> THEN <<>>
    ELSE LET first == _doc_first(raw)
             doc_lines == _doc_lines(raw)
         IN  IF ~verb THEN << indent \o QQQ \o first \o QQQ >>
             ELSE << indent \o QQQ \o doc_lines[1] >>
                  \o [i \in 1..(Len(doc_lines) - 1) |-> indent \o Strip(doc_lines[i + 1])]
                  \o << indent \o QQQ >>

\* to_text's inner _doc(raw, indent), with the enclosing call's verbose flag
_doc(raw, indent, verb) ==
    IF raw = <<>> THEN <<>>
    ELSE LET first == _doc_first(raw)
             doc_lines == _doc_lines(raw)
         IN  IF ~verb THEN << indent \o QQQ \o first \o QQQ >>
             ELSE IF Len(doc_lines) = 1 THEN << indent \o QQQ \o first \o QQQ >>
             ELSE << indent \o QQQ \o doc_lines[1] >>
                  \o [i \in 1..(Len(doc_lines) - 1) |-> indent \o Strip(doc_lines[i + 1])]
                  \o << indent \o QQQ >>

\* " -> {return_type}" if return_type else ""
RetSuffix(return_type) ==
    IF return_type = <<>> THEN <<>> ELSE <<SP, "-", ">", SP>> \o return_type

\* the lines of one method of a class
MethodLines(method, verb) ==
    << <<SP, SP, "+", SP>> \o method.name \o <<"(">> \o _compact_params(method.params)
       \o <<")">> \o RetSuffix(method.return_type) >>
    \o _doc(method.docstring, Indent2, verb)

\* the lines of one class block, closed by a blank line
ClassLines(cls, verb) ==
    << <<"c", "l", "a", "s", "s", SP>> \o cls.name
       \o (IF cls.bases = <<>> THEN <<>>
           ELSE <<"(">> \o Join(cls.bases, <<",", SP>>) \o <<")">>) >>
    \o _doc(cls.docstring, Indent1, verb)
    \o Flatten([i \in 1..Len(cls.methods) |-> MethodLines(cls.methods[i], verb)])
    \o << <<>> >>

\* the lines of one top-level function
FunctionLines(fn, verb) ==
    << <<"d", "e", "f", SP>> \o fn.name \o <<"(">> \o _compact_params(fn.params)
       \o <<")">> \o RetSuffix(fn.return_type) >>
    \o _doc(fn.docstring, Indent1, verb)

HeaderLine(file_name, language) ==
    <<"#", SP>> \o file_name \o <<SP, "[">> \o language \o <<"]">>

\* mutant: the function blocks are emitted before the class blocks
to_text_functions_first(self, verb) ==
    LET lines ==
            << HeaderLine(self.file_name, self.language) >>
            \o (IF self.module_doc = <<>> THEN <<>>
                ELSE << <<"m", "o", "d", "u", "l", "e", ":", SP, DQ>>
                        \o Strip(Split(self.module_doc, NL)[1]) \o <<DQ>> >>)
            \o (IF self.imports = <<>> THEN <<>>
                ELSE << <<"i", "m", "p", "o", "r", "t", "s", ":", SP>>
                        \o Join(self.imports, <<",", SP>>) >>)
            \o << <<>> >>
            \o Flatten([i \in 1..Len(self.functions) |-> FunctionLines(self.functions[i], verb)])
            \o Flatten([i \in 1..Len(self.classes) |-> ClassLines(self.classes[i], verb)])
    IN  Strip(Join(lines, <<NL>>))

\* mutant: the joined lines are returned as they are, without the final strip()
to_text_unstripped(self, verb) ==
    LET lines ==
            << HeaderLine(self.file_name, self.language) >>
            \o (IF self.module_doc = <<>> THEN <<>>
                ELSE << <<"m", "o", "d", "u", "l", "e", ":", SP, DQ>>
                        \o Strip(Split(self.module_doc, NL)[1]) \o <<DQ>> >>)
            \o (IF self.imports = <<>> THEN <<>>
                ELSE << <<"i", "m", "p", "o", "r", "t", "s", ":", SP>>
                        \o Join(self.imports, <<",", SP>>) >>)
            \o << <<>> >>
            \o Flatten([i \in 1..Len(self.classes) |-> ClassLines(self.classes[i], verb)])
            \o Flatten([i \in 1..Len(self.functions) |-> FunctionLines(self.functions[i], verb)])
    IN  Join(lines, <<NL>>)

\* CodeSkeleton.to_text(verbose)
to_text(self, verb) ==
    LET lines ==
            << HeaderLine(self.file_name, self.language) >>
            \o (IF self.module_doc = <<>> THEN <<>>
                ELSE << <<"m", "o", "d", "u", "l", "e", ":", SP, DQ>>
                        \o Strip(Split(self.module_doc, NL)[1]) \o <<DQ>> >>)
            \o (IF self.imports = <<>> THEN <<>>
                ELSE << <<"i", "m", "p", "o", "r", "t", "s", ":", SP>>
                        \o Join(self.imports, <<",", SP>>) >>)
            \o << <<>> >>
            \o Flatten([i \in 1..Len(self.classes) |-> ClassLines(self.classes[i], verb)])
            \o Flatten([i \in 1..Len(self.functions) |-> FunctionLines(self.functions[i], verb)])
    IN  Strip(Join(lines, <<NL>>))

(***************************************************************************)
(* Contents handed to the facade                                           *)
(***************************************************************************)
Doc_2lines == <<"a", NL, "a", "a">>

\* contents, by what their parse holds
Contents ==
    [ bad |-> [encodable |-> FALSE, module_doc |-> <<>>, imports |-> <<>>,
               classes |-> <<>>, functions |-> <<>>],
      empty |-> [encodable |-> TRUE, module_doc |-> <<>>, imports |-> <<>>,
                 classes |-> <<>>, functions |-> <<>>],
      doc |-> [encodable |-> TRUE, module_doc |-> <<"a">>,
               imports |-> << <<"o", "s">>, <<"r", "e">>, <<"o", "s">> >>,
               classes |-> <<>>,
               functions |-> << FunctionSig(<<"f">>, <<"x">>, <<>>, Doc_2lines) >>] ]

ContentIds == DOMAIN Contents

(***************************************************************************)
(* languages/*.py: the adapters                                            *)
(***************************************************************************)
Langs == {"python", "javascript", "typescript", "java", "cpp", "rust", "go"}

Str_Python == <<"P", "y", "t", "h", "o", "n">>
Str_Go == <<"G", "o">>
Str_JavaScript == <<"J", "a", "v", "a", "S", "c", "r", "i", "p", "t">>
Str_TypeScript == <<"T", "y", "p", "e", "S", "c", "r", "i", "p", "t">>
Str_Java == <<"J", "a", "v", "a">>
Str_Cpp == <<"C", "/", "C", "+", "+">>
Str_Rust == <<"R", "u", "s", "t">>

\* mutant: the two display names swapped
JsTs_lang_name_swapped(lang) ==
    IF lang = "typescript" THEN Str_JavaScript ELSE Str_TypeScript

\* JsTsExtractor.__init__: self._lang_name
JsTs_lang_name(lang) ==
    IF lang = "javascript" THEN Str_JavaScript ELSE Str_TypeScript

\* mutant: every import path found is listed, seen before or not
JsTs_imports_every(found, _seen_imports) == found

\* JsTsExtractor.extract: imports.append(raw) only if raw not in _seen_imports,
\* a set local to the call
RECURSIVE JsTs_imports(_, _)
JsTs_imports(found, _seen_imports) ==
    IF found = <<>> THEN <<>>
    ELSE IF found[1] \in _seen_imports
         THEN JsTs_imports(Tail(found), _seen_imports)
         ELSE <<found[1]>> \o JsTs_imports(Tail(found), _seen_imports \cup {found[1]})

\* mutant: _seen_imports outlives the call (an attribute of the adapter), so it
\* still holds the modules of an earlier call on the same adapter class
JsTs_seen_kept ==
    IF pin.made /\ pin.why = "ok" /\ pin.lang \in {"javascript", "typescript"}
    THEN {Contents[pin.content].imports[i] : i \in 1..Len(Contents[pin.content].imports)}
    ELSE {}

\* the _seen_imports set a call of JsTsExtractor.extract starts with
JsTs_seen_at_entry == {}

\* What the tree walk of a content finds is given with the content (the grammar
\* parser is an external collaborator): content.module_doc, .imports, .classes
\* and .functions are the statements found in source order.
PythonExtractor_extract(file_name, content) ==
    CodeSkeleton(file_name, Str_Python, content.module_doc, content.imports,
                 content.classes, content.functions)

JsTsExtractor_extract(lang, file_name, content) ==
    CodeSkeleton(file_name, JsTs_lang_name(lang), <<>>,
                 JsTs_imports(content.imports, JsTs_seen_at_entry),
                 content.classes, content.functions)

JavaExtractor_extract(file_name, content) ==
    CodeSkeleton(file_name, Str_Java, <<>>, content.imports, content.classes, <<>>)

CppExtractor_extract(file_name, content) ==
    CodeSkeleton(file_name, Str_Cpp, <<>>, content.imports, content.classes,
                 content.functions)

RustExtractor_extract(file_name, content) ==
    CodeSkeleton(file_name, Str_Rust, <<>>, content.imports, content.classes,
                 content.functions)

GoExtractor_extract(file_name, content) ==
    CodeSkeleton(file_name, Str_Go, <<>>, content.imports, content.classes,
                 content.functions)

\* LanguageExtractor.extract of the adapter for lang. Every adapter starts with
\* content.encode("utf-8"), which raises UnicodeEncodeError on a lone surrogate.
Raised == [kind |-> "raised", skel |-> CodeSkeleton(<<>>, <<>>, <<>>, <<>>, <<>>, <<>>)]

NotCalled == [kind |-> "not_called", skel |-> CodeSkeleton(<<>>, <<>>, <<>>, <<>>, <<>>, <<>>)]

extract(lang, file_name, content) ==
    IF ~content.encodable THEN Raised
    ELSE [kind |-> "skeleton",
          skel |-> CASE lang = "python" -> PythonExtractor_extract(file_name, content)
                     [] lang \in {"javascript", "typescript"} ->
                            JsTsExtractor_extract(lang, file_name, content)
                     [] lang = "java" -> JavaExtractor_extract(file_name, content)
                     [] lang = "cpp" -> CppExtractor_extract(file_name, content)
                     [] lang = "rust" -> RustExtractor_extract(file_name, content)
                     [] OTHER -> GoExtractor_extract(file_name, content)]

(***************************************************************************)
(* extractor.py: the registry and the facade behind extract_skeleton       *)
(***************************************************************************)
\* str.lower() on one character, for the letters file extensions are written with
LowerChar(c) ==
    CASE c = "A" -> "a" [] c = "C" -> "c" [] c = "G" -> "g" [] c = "H" -> "h"
      [] c = "J" -> "j" [] c = "M" -> "m" [] c = "O" -> "o" [] c = "P" -> "p"
      [] c = "R" -> "r" [] c = "S" -> "s" [] c = "T" -> "t" [] c = "V" -> "v"
      [] c = "X" -> "x" [] c = "Y" -> "y" [] c = "Z" -> "z" [] OTHER -> c

\* mutant: the extension is compared as written
Lower_missing(s) == s

Lower(s) == [i \in 1..Len(s) |-> LowerChar(s[i])]

\* the extension of a file name: from its last dot on, empty without a dot
Suffix(file_name) ==
    LET dots == {i \in 1..Len(file_name) : file_name[i] = "."}
    IN  IF dots = {} THEN <<>> ELSE SubSeq(file_name, SetMax(dots), Len(file_name))

\* the extension -> language id table
EXT_MAP ==
    { <<<<".", "p", "y">>, "python">>,
      <<<<".", "j", "s">>, "javascript">>,
      <<<<".", "j", "s", "x">>, "javascript">>,
      <<<<".", "m", "j", "s">>, "javascript">>,
      <<<<".", "t", "s">>, "typescript">>,
      <<<<".", "t", "s", "x">>, "typescript">>,
      <<<<".", "j", "a", "v", "a">>, "java">>,
      <<<<".", "c">>, "cpp">>,
      <<<<".", "h">>, "cpp">>,
      <<<<".", "c", "c">>, "cpp">>,
      <<<<".", "c", "p", "p">>, "cpp">>,
      <<<<".", "c", "x", "x">>, "cpp">>,
      <<<<".", "h", "p", "p">>, "cpp">>,
      <<<<".", "r", "s">>, "rust">>,
      <<<<".", "g", "o">>, "go">> }

NoLang == "none"

\* mutant: an unrecognized extension falls back to the Python adapter
_detect_language_fallback(file_name) ==
    LET ext == [i \in 1..Len(Suffix(file_name)) |-> LowerChar(Suffix(file_name)[i])]
        hits == {p \in EXT_MAP : p[1] = ext}
    IN  IF hits = {} THEN "python" ELSE (CHOOSE p \in hits : TRUE)[2]

\* the language id of a file name, NoLang for an unrecognized extension
_detect_language(file_name) ==
    LET ext == Lower(Suffix(file_name))
        hits == {p \in EXT_MAP : p[1] = ext}
    IN  IF hits = {} THEN NoLang ELSE (CHOOSE p \in hits : TRUE)[2]

\* A cache entry's inst is the ordinal of the adapter instance (1 for the first
\* one constructed for the language), or Unavailable when construction failed.
Unavailable == 0

CacheEntries(c, lang) == {e \in c : e.lang = lang}

\* mutant: the constructed adapter is returned but never stored
CachePut_forgotten(c, lang, inst) == c

\* mutant: the registry is a list of entries that every store appends to
CachePut_append(c, lang, inst) == c \cup {[lang |-> lang, inst |-> inst]}

\* self._cache[lang] = inst
CachePut(c, lang, inst) ==
    {e \in c : e.lang # lang} \cup {[lang |-> lang, inst |-> inst]}

\* self._cache[lang], for a cached language
CacheGet(c, lang) == (CHOOSE e \in CacheEntries(c, lang) : TRUE).inst

NoneResult == [kind |-> "none", text |-> <<>>]
TextResult(t) == [kind |-> "text", text |-> t]
RaisedResult == [kind |-> "raised", text |-> <<>>]

\* mutant: no except clause, the adapter's exception propagates
Serve_propagates(r, verb) ==
    IF r.kind = "raised" THEN RaisedResult ELSE TextResult(to_text(r.skel, verb))

\* try: skeleton = adapter.extract(...); return skeleton.to_text(verbose)
\* except Exception: return None
Serve(r, verb) ==
    IF r.kind = "raised" THEN NoneResult ELSE TextResult(to_text(r.skel, verb))

(***************************************************************************)
(* Facade inputs                                                           *)
(***************************************************************************)
NoCall ==
    [made |-> FALSE, file_name |-> <<>>, content |-> "empty", verbose |-> FALSE,
     lang |-> NoLang, constructed |-> FALSE, inst |-> Unavailable,
     why |-> "", result |-> NoneResult]

CallRecord(file_name, content, verb, lang, constructed, inst, why, result) ==
    [made |-> TRUE, file_name |-> file_name, content |-> content, verbose |-> verb,
     lang |-> lang, constructed |-> constructed, inst |-> inst,
     why |-> why, result |-> result]

RegistryInit ==
    /\ cache = {}
    /\ built = [l \in Langs |-> 0]
    /\ handed = [l \in Langs |-> {}]
    /\ requested = {}

NumThreads == 2
Threads == 1..NumThreads
IdleThread == [pc |-> "idle", lang |-> NoLang, inst |-> Unavailable]

(***************************************************************************)
(* Serializer inputs: the skeletons an adapter can hand to to_text         *)
(***************************************************************************)
MaxDocLen == 4      \* characters of docstring text in one skeleton
MaxItems == 2       \* classes + methods + functions + imports in one skeleton

DocAlphabet == {"a", SP, NL}

\* all strings over DocAlphabet of length n
RECURSIVE StringsOfLen(_)
StringsOfLen(n) ==
    IF n = 0 THEN {<<>>}
    ELSE {<<c>> \o s : c \in DocAlphabet, s \in StringsOfLen(n - 1)}

\* Every adapter strips the docstring it stores (python.py:27, js_ts.py:25,38,52,
\* java.py:25, cpp.py:25, go.py:26, rust.py:27): the pool holds the stripped
\* non-empty texts of at most n characters.
StrippedDocs(n) ==
    {d \in UNION {{Strip(s) : s \in StringsOfLen(k)} : k \in 0..n} : d # <<>>}

DocPools == [n \in 0..MaxDocLen |-> StrippedDocs(n)]

DocPool(n) == DocPools[n]

Str_a_py == <<"a", ".", "p", "y">>

FuncHeads ==
    { [name |-> <<"f">>, params |-> <<>>, return_type |-> <<>>],
      [name |-> <<"g">>, params |-> <<"x", ",", NL, SP, SP, "y", ",">>,
       return_type |-> <<"T">>] }

ClassHeads ==
    { [name |-> <<"C">>, bases |-> <<>>],
      [name |-> <<"D">>, bases |-> << <<"B">>, <<"I">> >>] }

RECURSIVE SumLen(_)
SumLen(ss) == IF ss = <<>> THEN 0 ELSE Len(ss[1]) + SumLen(Tail(ss))

\* every docstring slot of a skeleton with its indent, in output order:
\* each class, then its methods, ..., then the top-level functions
ClassDocSlots(cls) ==
    << [doc |-> cls.docstring, indent |-> Indent1] >>
    \o [i \in 1..Len(cls.methods) |->
            [doc |-> cls.methods[i].docstring, indent |-> Indent2]]

DocSlots(s) ==
    Flatten([i \in 1..Len(s.classes) |-> ClassDocSlots(s.classes[i])])
    \o [i \in 1..Len(s.functions) |->
            [doc |-> s.functions[i].docstring, indent |-> Indent1]]

DocChars(s) ==
    Len(s.module_doc) + SumLen([i \in 1..Len(DocSlots(s)) |-> DocSlots(s)[i].doc])

Items(s) == Len(DocSlots(s)) + Len(s.imports)

\* docstrings that still fit the skeleton, the empty one included
DocChoices(s) == {<<>>} \cup DocPool(MaxDocLen - DocChars(s))

TextInit ==
    /\ skel = CodeSkeleton(Str_a_py, Str_Python, <<>>, <<>>, <<>>, <<>>)
    /\ rendered = FALSE
    /\ verbose = FALSE
    /\ text = <<>>
    /\ RegistryInit
    /\ last = NoCall
    /\ pin = NoCall
    /\ thr = [t \in Threads |-> IdleThread]
    /\ tree = NoTree

\* PythonExtractor.extract sets module_doc; the other adapters leave it empty
SetModuleDoc ==
    /\ ~rendered
    /\ skel.language = Str_Python
    /\ skel.module_doc = <<>>
    /\ \E d \in DocPool(MaxDocLen - DocChars(skel)) :
         skel' = [skel EXCEPT !.module_doc = d]
    /\ UNCHANGED <<rendered, verbose, text, registryVars, callVars, thr, tree>>

\* imports.append(...)
AddImport ==
    /\ ~rendered
    /\ Items(skel) < MaxItems
    /\ \E m \in { <<"o", "s">>, <<"r", "e">> } :
         skel' = [skel EXCEPT !.imports = Append(@, m)]
    /\ UNCHANGED <<rendered, verbose, text, registryVars, callVars, thr, tree>>

\* classes.append(ClassSkeleton(...)), its methods still to be collected
AddClass ==
    /\ ~rendered
    /\ Items(skel) < MaxItems
    /\ \E h \in ClassHeads, d \in DocChoices(skel) :
         skel' = [skel EXCEPT !.classes =
                      Append(@, ClassSkeleton(h.name, h.bases, d, <<>>))]
    /\ UNCHANGED <<rendered, verbose, text, registryVars, callVars, thr, tree>>

\* methods.append(FunctionSig(...)) for the class being collected
AddMethod ==
    /\ ~rendered
    /\ Items(skel) < MaxItems
    /\ skel.classes # <<>>
    /\ \E h \in FuncHeads, d \in DocChoices(skel) :
         skel' = [skel EXCEPT !.classes[Len(skel.classes)].methods =
                      Append(@, FunctionSig(h.name, h.params, h.return_type, d))]
    /\ UNCHANGED <<rendered, verbose, text, registryVars, callVars, thr, tree>>

\* functions.append(FunctionSig(...))
AddFunction ==
    /\ ~rendered
    /\ Items(skel) < MaxItems
    /\ \E h \in FuncHeads, d \in DocChoices(skel) :
         skel' = [skel EXCEPT !.functions =
                      Append(@, FunctionSig(h.name, h.params, h.return_type, d))]
    /\ UNCHANGED <<rendered, verbose, text, registryVars, callVars, thr, tree>>

\* mutant: serializing consumes the imports of the skeleton
ToText_consuming ==
    /\ \E v \in BOOLEAN :
         /\ verbose' = v
         /\ text' = to_text(skel, v)
    /\ rendered' = TRUE
    /\ skel' = [skel EXCEPT !.imports = <<>>]
    /\ UNCHANGED <<registryVars, callVars, thr, tree>>

\* skeleton.to_text(verbose=v): reads the skeleton, returns the text
ToText ==
    /\ \E v \in BOOLEAN :
         /\ verbose' = v
         /\ text' = to_text(skel, v)
    /\ rendered' = TRUE
    /\ UNCHANGED <<skel, registryVars, callVars, thr, tree>>

TextNext ==
    \/ SetModuleDoc
    \/ AddImport
    \/ AddClass
    \/ AddMethod
    \/ AddFunction
    \/ ToText

SpecText == TextInit /\ [][TextNext]_vars

(***************************************************************************)
(* The facade, one call at a time                                          *)
(***************************************************************************)
Str_A_PY == <<"A", ".", "P", "Y">>
Str_b_ts == <<"b", ".", "t", "s">>
Str_x_xyz == <<"x", ".", "x", "y", "z">>

\* the file names the calls of one process are drawn from
FacadeFiles == {Str_a_py, Str_A_PY, Str_b_ts, Str_x_xyz}

EmptySkeleton == CodeSkeleton(<<>>, <<>>, <<>>, <<>>, <<>>, <<>>)

TextIdle ==
    /\ skel = EmptySkeleton
    /\ rendered = FALSE
    /\ verbose = FALSE
    /\ text = <<>>

\* ASTExtractor.extract_skeleton(file_name, content, verbose): detect the
\* language, get the adapter from the registry (constructing and caching it on
\* first use, caching the failure when its grammar does not load), extract and
\* serialize; every failure becomes None.
ASTExtractor_extract_skeleton(file_name, content, verb) ==
    \E lang \in {_detect_language(file_name)} :
        IF lang = NoLang
        THEN /\ last' = CallRecord(file_name, content, verb, lang, FALSE, Unavailable,
                                   "unsupported", NoneResult)
             /\ UNCHANGED registryVars
        ELSE /\ requested' = requested \cup {lang}
             /\ \E hit \in {CacheEntries(cache, lang) # {}} :
                \E loads \in (IF hit THEN {TRUE} ELSE BOOLEAN) :
                \E inst \in {IF hit THEN CacheGet(cache, lang)
                              ELSE IF loads THEN built[lang] + 1 ELSE Unavailable} :
                \E r \in {IF inst = Unavailable THEN NotCalled
                           ELSE extract(lang, file_name, Contents[content])} :
                  /\ cache' = IF hit THEN cache ELSE CachePut(cache, lang, inst)
                  /\ built' = IF hit THEN built ELSE [built EXCEPT ![lang] = @ + 1]
                  /\ handed' = IF inst = Unavailable THEN handed
                               ELSE [handed EXCEPT ![lang] = @ \cup {inst}]
                  /\ last' = CallRecord(file_name, content, verb, lang, ~hit, inst,
                                IF inst = Unavailable THEN "unavailable"
                                ELSE IF r.kind = "raised" THEN "extract_raised"
                                ELSE "ok",
                                IF inst = Unavailable THEN NoneResult
                                ELSE Serve(r, verb))

\* extract_skeleton(file_name, content, verbose) of the package: delegates to the
\* process-wide ASTExtractor
extract_skeleton(file_name, content, verb) ==
    ASTExtractor_extract_skeleton(file_name, content, verb)

\* a facade call; the call may be the one remembered in pin
FacadeCall(files) ==
    /\ \E f \in files, c \in ContentIds, v \in BOOLEAN : extract_skeleton(f, c, v)
    /\ \E remember \in (IF pin.made THEN {FALSE} ELSE BOOLEAN) :
         pin' = IF remember THEN last' ELSE pin
    /\ UNCHANGED <<textVars, thr, tree>>

Init ==
    /\ TextIdle
    /\ RegistryInit
    /\ last = NoCall
    /\ pin = NoCall
    /\ thr = [t \in Threads |-> IdleThread]
    /\ tree = NoTree

Call == FacadeCall(FacadeFiles)

Next == Call

Spec == Init /\ [][Next]_vars

(***************************************************************************)
(* One facade call, for every file name and every state of one registry    *)
(* entry                                                                   *)
(***************************************************************************)
UpperChar(c) ==
    CASE c = "a" -> "A" [] c = "c" -> "C" [] c = "g" -> "G" [] c = "h" -> "H"
      [] c = "j" -> "J" [] c = "m" -> "M" [] c = "o" -> "O" [] c = "p" -> "P"
      [] c = "r" -> "R" [] c = "s" -> "S" [] c = "t" -> "T" [] c = "v" -> "V"
      [] c = "x" -> "X" [] c = "y" -> "Y" [] c = "z" -> "Z" [] OTHER -> c

\* every way of writing s with each letter in lower or upper case
RECURSIVE CaseVariants(_)
CaseVariants(s) ==
    IF s = <<>> THEN {<<>>}
    ELSE {<<c>> \o r : c \in {s[1], UpperChar(s[1])}, r \in CaseVariants(Tail(s))}

\* extensions outside the table: unknown ones, and near misses of known ones
OtherExts ==
    { <<".", "x", "y", "z">>, <<".", "p", "y", "x">>, <<".", "p">>, <<".", "j", "a", "v">>,
      <<".", "t", "x", "t">>, <<".", "c", "s">>, <<".", "h", "h">> }

TableExts == {p[1] : p \in EXT_MAP}

\* file names: a stem and an extension in any letter case, names with two dots,
\* and names without an extension
AllFileNames ==
    {<<"m">> \o v : v \in UNION {CaseVariants(e) : e \in TableExts \cup OtherExts}}
    \cup {<<"m", ".", "p", "y">> \o e : e \in {<<".", "t", "x", "t">>, <<".", "g", "o">>}}
    \cup { <<"p", "y">>, <<"R", "E", "A", "D", "M", "E">> }

\* the registry entry of one language is absent, a cached failure or a cached
\* adapter; the other languages have not been requested
CallInit ==
    /\ TextIdle
    /\ \E l \in Langs, e \in {"absent", "unavailable", "cached"} :
         /\ cache = IF e = "absent" THEN {}
                    ELSE {[lang |-> l, inst |-> IF e = "cached" THEN 1 ELSE Unavailable]}
         /\ built = [k \in Langs |-> IF k = l /\ e # "absent" THEN 1 ELSE 0]
         /\ handed = [k \in Langs |-> IF k = l /\ e = "cached" THEN {1} ELSE {}]
         /\ requested = IF e = "absent" THEN {} ELSE {l}
    /\ last = NoCall
    /\ pin = NoCall
    /\ thr = [t \in Threads |-> IdleThread]
    /\ tree = NoTree

CallOnce ==
    /\ ~last.made
    /\ FacadeCall(AllFileNames)

SpecCall == CallInit /\ [][CallOnce]_vars

(***************************************************************************)
(* Claims about one facade call (SpecCall)                                 *)
(***************************************************************************)
\* the extension table as the specification states it: extension, language id
\* and display name, extensions in lower case
StatedTable ==
    { <<<<".", "p", "y">>, "python", Str_Python>>,
      <<<<".", "j", "s">>, "javascript", Str_JavaScript>>,
      <<<<".", "j", "s", "x">>, "javascript", Str_JavaScript>>,
      <<<<".", "m", "j", "s">>, "javascript", Str_JavaScript>>,
      <<<<".", "t", "s">>, "typescript", Str_TypeScript>>,
      <<<<".", "t", "s", "x">>, "typescript", Str_TypeScript>>,
      <<<<".", "j", "a", "v", "a">>, "java", Str_Java>>,
      <<<<".", "c">>, "cpp", Str_Cpp>>,
      <<<<".", "h">>, "cpp", Str_Cpp>>,
      <<<<".", "c", "c">>, "cpp", Str_Cpp>>,
      <<<<".", "c", "p", "p">>, "cpp", Str_Cpp>>,
      <<<<".", "c", "x", "x">>, "cpp", Str_Cpp>>,
      <<<<".", "h", "p", "p">>, "cpp", Str_Cpp>>,
      <<<<".", "r", "s">>, "rust", Str_Rust>>,
      <<<<".", "g", "o">>, "go", Str_Go>> }

\* the rows of the stated table that a file name's extension matches in some
\* letter case
StatedVariants == [row \in StatedTable |-> CaseVariants(row[1])]

StatedRows(file_name) ==
    {row \in StatedTable : Suffix(file_name) \in StatedVariants[row]}

\* a file name without its extension
Stem(file_name) == SubSeq(file_name, 1, Len(file_name) - Len(Suffix(file_name)))

\* C1: extract_skeleton returns a text or None and never raises; when the
\* adapter raises during extraction, or could not be constructed, it returns None.
C1_NeverRaises ==
    last.made =>
        /\ last.result.kind \in {"text", "none"}
        /\ last.why \in {"extract_raised", "unavailable"} => last.result = NoneResult
        /\ ~Contents[last.content].encodable => last.result = NoneResult

\* C1 witness: a call whose adapter was constructed by the call and raised
C1_Witness ==
    /\ last.made
    /\ last.why = "extract_raised"
    /\ last.constructed
    /\ last.inst # Unavailable
    /\ last.result = NoneResult

\* C2: a file name whose extension is not in the table gets None as a normal
\* result, whatever the registry holds.
C2_UnknownExtensionAbsent ==
    (last.made /\ StatedRows(last.file_name) = {}) =>
        /\ last.result = NoneResult
        /\ last.why = "unsupported"

\* C2 witness: x.XYZ requested of a registry that holds a cached adapter
C2_Witness ==
    /\ last.made
    /\ last.file_name = <<"m", ".", "X", "Y", "Z">>
    /\ last.why = "unsupported"
    /\ \E e \in cache : e.inst # Unavailable

FirstLine(t) == Split(t, NL)[1]

\* C7: the first line of a returned text is "# <file_name> [<Language>]", the
\* file name echoed and the display name that of the extension's adapter.
C7_HeaderLine ==
    (last.made /\ last.result.kind = "text") =>
        \E row \in StatedRows(last.file_name) :
            FirstLine(last.result.text) =
                <<"#", SP>> \o last.file_name \o <<SP, "[">> \o row[3] \o <<"]">>

\* C7 witness: a text returned for an upper-case .TSX file
C7_Witness ==
    /\ last.made
    /\ last.result.kind = "text"
    /\ last.file_name = <<"m", ".", "T", "S", "X">>
    /\ last.content = "doc"

\* C8: the adapter is selected by the extension, in any letter case, exactly as
\* the table says, and no extension outside the table selects an adapter.
C8_ExtensionTable ==
    last.made =>
        /\ \A row \in StatedRows(last.file_name) : last.lang = row[2]
        /\ StatedRows(last.file_name) = {} => last.lang = NoLang
        /\ \A row \in StatedRows(last.file_name) : \A v \in StatedVariants[row] :
             _detect_language(Stem(last.file_name) \o v) = last.lang

\* C8 witness: a mixed-case .Cpp file selects the C/C++ adapter
C8_Witness ==
    /\ last.made
    /\ last.file_name = <<"m", ".", "C", "p", "P">>
    /\ last.lang = "cpp"
    /\ last.result.kind = "text"

(***************************************************************************)
(* Claims about sequences of facade calls (Spec)                           *)
(***************************************************************************)
SameArguments(a, b) ==
    /\ a.file_name = b.file_name
    /\ a.content = b.content
    /\ a.verbose = b.verbose

\* C3: two calls with the same (file_name, content, verbose) return the same
\* result, whatever calls were made before or between them and whether the
\* adapter was constructed by the call or came from the cache.
C3_Idempotent ==
    (pin.made /\ last.made /\ SameArguments(pin, last)) => last.result = pin.result

\* C3 witness: the remembered call constructed the adapter and returned a text,
\* a later call with the same arguments is served from the cache, and another
\* language has been requested in the same process
C3_Witness ==
    /\ pin.made /\ last.made /\ SameArguments(pin, last)
    /\ pin.constructed /\ ~last.constructed
    /\ pin.result.kind = "text"
    /\ pin.lang = "typescript" /\ pin.content = "doc" /\ pin.verbose
    /\ "python" \in requested

\* C4: every adapter is constructed lazily, only once a file of its language
\* has been requested, and at most once; every later request of the language
\* gets the one cached instance.
C4_ConstructedOnce ==
    \A l \in Langs :
        /\ built[l] <= 1
        /\ Cardinality(handed[l]) <= 1
        /\ built[l] > 0 => l \in requested
        /\ (last.made /\ last.lang = l /\ last.inst # Unavailable) =>
               (handed[l] = {last.inst} /\ CacheEntries(cache, l) = {[lang |-> l, inst |-> last.inst]})

\* C4 witness: a call served by the adapter an earlier call constructed, while
\* a language nobody requested has no adapter
C4_Witness ==
    /\ pin.made /\ pin.constructed /\ pin.inst = 1
    /\ last.made /\ ~last.constructed /\ last.inst = 1
    /\ last.lang = pin.lang
    /\ last.file_name # pin.file_name
    /\ built[last.lang] = 1
    /\ built["go"] = 0

(***************************************************************************)
(* Concurrent facade calls: each thread's call in its steps                *)
(***************************************************************************)
\* the files the threads ask for
ConcFiles == {Str_a_py, Str_A_PY, Str_b_ts}

SetThread(t, pc, lang, inst) ==
    thr' = [thr EXCEPT ![t] = [pc |-> pc, lang |-> lang, inst |-> inst]]

\* the registry lookup of a call: `if lang in self._cache: return self._cache[lang]`.
\* A hit hands the cached adapter (or the cached failure) to the thread; a miss
\* sends it to construct one.
T_Lookup(t) ==
    /\ thr[t].pc = "idle"
    /\ \E f \in ConcFiles :
         \E lang \in {_detect_language(f)} :
            /\ requested' = requested \cup {lang}
            /\ IF CacheEntries(cache, lang) = {}
               THEN /\ SetThread(t, "construct", lang, Unavailable)
                    /\ UNCHANGED handed
               ELSE \E inst \in {CacheGet(cache, lang)} :
                      IF inst = Unavailable
                      THEN /\ SetThread(t, "idle", NoLang, Unavailable)
                           /\ UNCHANGED handed
                      ELSE /\ SetThread(t, "have", lang, inst)
                           /\ handed' = [handed EXCEPT ![lang] = @ \cup {inst}]
    /\ UNCHANGED <<cache, built, textVars, callVars, tree>>

\* the adapter class is constructed: PythonExtractor() or JsTsExtractor(lang)
\* loads its grammar and builds its parser, or raises
T_Construct(t) ==
    /\ thr[t].pc = "construct"
    /\ \E loads \in BOOLEAN :
         SetThread(t, "store", thr[t].lang,
                   IF loads THEN built[thr[t].lang] + 1 ELSE Unavailable)
    /\ built' = [built EXCEPT ![thr[t].lang] = @ + 1]
    /\ UNCHANGED <<cache, handed, requested, textVars, callVars, tree>>

\* self._cache[lang] = adapter (or the failure), and the call goes on with it
T_Store(t) ==
    /\ thr[t].pc = "store"
    /\ cache' = CachePut(cache, thr[t].lang, thr[t].inst)
    /\ IF thr[t].inst = Unavailable
       THEN /\ SetThread(t, "idle", NoLang, Unavailable)
            /\ UNCHANGED handed
       ELSE /\ SetThread(t, "have", thr[t].lang, thr[t].inst)
            /\ handed' = [handed EXCEPT ![thr[t].lang] = @ \cup {thr[t].inst}]
    /\ UNCHANGED <<built, requested, textVars, callVars, tree>>

\* extract enters self._parser.parse(content_bytes) on the adapter's one parser;
\* no adapter takes a lock or a per-thread parser before it
T_ParseBegin(t) ==
    /\ thr[t].pc = "have"
    /\ SetThread(t, "parsing", thr[t].lang, thr[t].inst)
    /\ UNCHANGED <<registryVars, textVars, callVars, tree>>

\* parse returns; the tree is walked, the skeleton serialized, the call returns
T_ParseEnd(t) ==
    /\ thr[t].pc = "parsing"
    /\ SetThread(t, "idle", NoLang, Unavailable)
    /\ UNCHANGED <<registryVars, textVars, callVars, tree>>

ConcNext ==
    \E t \in Threads :
        \/ T_Lookup(t)
        \/ T_Construct(t)
        \/ T_Store(t)
        \/ T_ParseBegin(t)
        \/ T_ParseEnd(t)

SpecConc == Init /\ [][ConcNext]_vars

\* C5: when threads race on the first request of a language, the registry keeps
\* at most one adapter instance of the language once the calls have finished.
C5_OneInstanceKept ==
    (\A t \in Threads : thr[t].pc = "idle") =>
        \A l \in Langs : Cardinality(CacheEntries(cache, l)) <= 1

\* C5 witness: two threads each constructed an adapter of the same language,
\* both calls have finished
C5_Witness ==
    /\ \A t \in Threads : thr[t].pc = "idle"
    /\ built["python"] >= 2
    /\ Cardinality(handed["python"]) >= 2
    /\ Cardinality(CacheEntries(cache, "python")) = 1

\* C6: no two threads are inside parse on the parser of the same adapter
\* instance at the same time.
C6_ParseSerialized ==
    \A t1 \in Threads, t2 \in Threads :
        (t1 # t2 /\ thr[t1].pc = "parsing" /\ thr[t2].pc = "parsing") =>
            ~(thr[t1].lang = thr[t2].lang /\ thr[t1].inst = thr[t2].inst)

(***************************************************************************)
(* Claims about the serializer (SpecText)                                  *)
(***************************************************************************)
\* the lines of a docstring as written in the source: the text between its
\* line breaks
SourceLines(d) ==
    LET cuts == {0} \cup {i \in 1..Len(d) : d[i] = NL} \cup {Len(d) + 1}
        nth(n) == CHOOSE c \in cuts : Cardinality({b \in cuts : b < c}) = n
    IN  [n \in 1..(Cardinality(cuts) - 1) |-> SubSeq(d, nth(n - 1) + 1, nth(n) - 1)]

\* the output lines that render docstrings: the indented lines that are not
\* method signatures (names, parameters and bases hold no quote and no line
\* break in the skeletons of SpecText)
IsDocOutputLine(l) ==
    /\ Len(l) >= 2
    /\ l[1] = SP
    /\ (Strip(l) = <<>> \/ Strip(l)[1] # "+")

DocOutputLines == SelectSeq(Split(text, NL), IsDocOutputLine)

\* what a docstring slot contributes in compact mode: nothing when empty, else
\* one line with the first source line between the markers
StatedCompact(slot) ==
    IF slot.doc = <<>> THEN <<>>
    ELSE << slot.indent \o QQQ \o Strip(SourceLines(slot.doc)[1]) \o QQQ >>

\* what a docstring slot contributes in verbose mode: a docstring of n > 1 lines
\* gives the opening marker with line 1, lines 2..n re-indented, the closing marker
StatedVerbose(slot) ==
    LET src == SourceLines(slot.doc)
        n == Len(src)
    IN  IF slot.doc = <<>> THEN <<>>
        ELSE IF n = 1 THEN << slot.indent \o QQQ \o src[1] \o QQQ >>
        ELSE << slot.indent \o QQQ \o src[1] >>
             \o [i \in 1..(n - 1) |-> slot.indent \o Strip(src[i + 1])]
             \o << slot.indent \o QQQ >>

\* C9: in compact mode every non-empty docstring of a class, method or function
\* is rendered as exactly one line, its first source line between triple quotes.
C9_CompactOneLine ==
    (rendered /\ ~verbose) =>
        DocOutputLines =
            Flatten([i \in 1..Len(DocSlots(skel)) |-> StatedCompact(DocSlots(skel)[i])])

\* C9 witness: a compact rendering of a skeleton holding a method docstring of
\* two or more lines
C9_Witness ==
    /\ rendered /\ ~verbose
    /\ \E i \in 1..Len(DocSlots(skel)) :
         /\ DocSlots(skel)[i].indent = Indent2
         /\ Len(SourceLines(DocSlots(skel)[i].doc)) >= 2

\* C10: in verbose mode a docstring of n > 1 lines is rendered with all its n
\* lines in source order between the markers, each re-indented to its block.
C10_VerboseAllLines ==
    (rendered /\ verbose) =>
        DocOutputLines =
            Flatten([i \in 1..Len(DocSlots(skel)) |-> StatedVerbose(DocSlots(skel)[i])])

\* C10 witness: a verbose rendering of a method docstring of three lines, the
\* middle one blank
C10_Witness ==
    /\ rendered /\ verbose
    /\ Len(DocSlots(skel)) >= 2
    /\ \E i \in 1..Len(DocSlots(skel)) :
         /\ DocSlots(skel)[i].indent = Indent2
         /\ Len(SourceLines(DocSlots(skel)[i].doc)) >= 3

(***************************************************************************)
(* Parameter text handed to to_text (SpecParams)                           *)
(***************************************************************************)
MaxParamLen == 4    \* characters of raw parameter text

ParamAlphabet == {"a", ",", SP, NL}

RECURSIVE ParamStringsOfLen(_)
ParamStringsOfLen(n) ==
    IF n = 0 THEN {<<>>}
    ELSE {<<c>> \o s : c \in ParamAlphabet, s \in ParamStringsOfLen(n - 1)}

RemoveWs(s) == SelectSeq(s, LAMBDA c : c \notin Whitespace)

\* The parameter text an adapter stores: the text between the parentheses of a
\* parameter list, stripped (python.py:43-47). In a parameter list the grammar
\* accepts, a comma follows a parameter: none leads the list, none follows
\* another comma.
IsParamText(s) ==
    /\ s = Strip(s)
    /\ LET t == RemoveWs(s)
       IN  /\ (t # <<>> => t[1] # ",")
           /\ \A i \in 1..(Len(t) - 1) : ~(t[i] = "," /\ t[i + 1] = ",")

ParamTexts ==
    {s \in UNION {ParamStringsOfLen(k) : k \in 0..MaxParamLen} : IsParamText(s)}

\* the skeleton of a file holding one function f or one class C with a method f
ParamInit ==
    /\ \E raw \in ParamTexts, in_class \in BOOLEAN :
         skel = IF in_class
                THEN CodeSkeleton(Str_a_py, Str_Python, <<>>, <<>>,
                         << ClassSkeleton(<<"C">>, <<>>, <<>>,
                                << FunctionSig(<<"f">>, raw, <<>>, <<>>) >>) >>, <<>>)
                ELSE CodeSkeleton(Str_a_py, Str_Python, <<>>, <<>>, <<>>,
                         << FunctionSig(<<"f">>, raw, <<>>, <<>>) >>)
    /\ rendered = FALSE
    /\ verbose = FALSE
    /\ text = <<>>
    /\ RegistryInit
    /\ last = NoCall
    /\ pin = NoCall
    /\ thr = [t \in Threads |-> IdleThread]
    /\ tree = NoTree

\* skeleton.to_text(verbose=v), once
RenderParams ==
    /\ ~rendered
    /\ ToText

SpecParams == ParamInit /\ [][RenderParams]_vars

\* the raw parameter text of the skeleton's one signature
RawParams ==
    IF skel.classes # <<>> THEN skel.classes[1].methods[1].params
    ELSE skel.functions[1].params

\* compaction as stated: whitespace runs collapsed to one space, a trailing
\* comma removed, no whitespace left at either end, nothing else changed
StatedParams(raw) ==
    LET c == Strip(CollapseWs(raw))
        d == IF c # <<>> /\ c[Len(c)] = "," THEN SubSeq(c, 1, Len(c) - 1) ELSE c
    IN  Strip(d)

\* the signature line of the rendered text: the third line (header, blank,
\* then the function or class line), or the fourth for a method
SignatureLine ==
    IF skel.classes # <<>> THEN Split(text, NL)[4] ELSE Split(text, NL)[3]

StatedSignatureLine ==
    (IF skel.classes # <<>> THEN <<SP, SP, "+", SP>> ELSE <<"d", "e", "f", SP>>)
    \o <<"f", "(">> \o StatedParams(RawParams) \o <<")">>

\* C11: the parameters are rendered with every whitespace run collapsed to one
\* space and a trailing comma removed, with no trailing comma and no leading or
\* trailing whitespace, and every other character kept.
C11_ParamsCompacted ==
    rendered => SignatureLine = StatedSignatureLine

(***************************************************************************)
(* Claims about the layout of the text (SpecText)                          *)
(***************************************************************************)
\* the number of lines before the blank separator: the header, the module-doc
\* line and the imports line
PreambleLen ==
    1 + (IF skel.module_doc # <<>> THEN 1 ELSE 0) + (IF skel.imports # <<>> THEN 1 ELSE 0)

StartsWith(l, prefix) ==
    Len(l) >= Len(prefix) /\ SubSeq(l, 1, Len(prefix)) = prefix

\* the lines that open a class block, a method or a function block, as
\* <<kind, name>>, in the order they appear (names are one character long)
HeadOf(l) ==
    IF StartsWith(l, <<"c", "l", "a", "s", "s", SP>>) THEN << <<"class", l[7]>> >>
    ELSE IF StartsWith(l, <<SP, SP, "+", SP>>) THEN << <<"method", l[5]>> >>
    ELSE IF StartsWith(l, <<"d", "e", "f", SP>>) THEN << <<"def", l[5]>> >>
    ELSE <<>>

HeadsOf(ls) == Flatten([i \in 1..Len(ls) |-> HeadOf(ls[i])])

\* the blocks the layout states: every class in list order with its methods in
\* list order, then every function in list order
StatedHeads ==
    Flatten([i \in 1..Len(skel.classes) |->
                << <<"class", skel.classes[i].name[1]>> >>
                \o [j \in 1..Len(skel.classes[i].methods) |->
                        <<"method", skel.classes[i].methods[j].name[1]>>]])
    \o [i \in 1..Len(skel.functions) |-> <<"def", skel.functions[i].name[1]>>]

Node(type, children) ==
    [type |-> type, text |-> <<>>, children |-> children, gap |-> FALSE]

Leaf(type, node_text) ==
    [type |-> type, text |-> node_text, children |-> <<>>, gap |-> FALSE]

\* the node, written after a blank line
AfterBlank(node) == [node EXCEPT !.gap = TRUE]

\* an anonymous token such as `func` or `{`: its type is its text
Token(t) == Leaf(t, <<>>)

\* _node_text(node, content_bytes)
_node_text(node) == node.text

\* an ERROR node, as the parser leaves one for text it could not parse
ErrorNode == Leaf("ERROR", <<"@">>)

\* mutant: the walk gives up at the first error-recovery node
Siblings_until_error(node) ==
    LET errs == {i \in 1..Len(node.children) : node.children[i].type = "ERROR"}
    IN  IF errs = {} THEN node.children
        ELSE SubSeq(node.children, 1, (CHOOSE i \in errs : \A j \in errs : i <= j) - 1)

\* siblings = list(node.children)
Siblings(node) == node.children

\* str.startswith / str.endswith
StartsWithStr(s, prefix) ==
    Len(s) >= Len(prefix) /\ SubSeq(s, 1, Len(prefix)) = prefix

EndsWithStr(s, suffix) ==
    Len(s) >= Len(suffix) /\ SubSeq(s, Len(s) - Len(suffix) + 1, Len(s)) = suffix

\* raw = text.strip(); if raw.startswith("(") and raw.endswith(")"): raw = raw[1:-1];
\* return raw.strip()
Unparen(node_text) ==
    LET raw == Strip(node_text)
    IN  IF StartsWithStr(raw, <<"(">>) /\ EndsWithStr(raw, <<")">>)
        THEN Strip(SubSeq(raw, 2, Len(raw) - 1))
        ELSE raw

\* a loop over a list that updates local variables: step(acc, item) for each
\* item in order
RECURSIVE Loop(_, _, _)
Loop(step(_, _), acc, items) ==
    IF items = <<>> THEN acc ELSE Loop(step, step(acc, Head(items)), Tail(items))

\* the children of a node that have one of the types, in order
ChildrenOfType(node, types) == SelectSeq(node.children, LAMBDA c : c.type \in types)

\* Identifiers are named after the place of their declaration in the source:
\* n<i> for the i-th top-level sibling, n<i><j> for the j-th node inside it.
Digits == <<"1", "2", "3", "4", "5", "6", "7", "8", "9">>
Ident(i) == <<"n", Digits[i]>>
Ident2(i, j) == <<"n", Digits[i], Digits[j]>>

(***************************************************************************)
(* languages/go.py                                                         *)
(***************************************************************************)
\* the text of one comment node with its leading // stripped
Go_comment_line(node) ==
    LET raw == Strip(_node_text(node))
    IN  IF StartsWithStr(raw, <<"/", "/">>) THEN Strip(SubSeq(raw, 3, Len(raw))) ELSE raw

\* the while loop of _preceding_doc: the comment nodes right before index i,
\* each inserted at the front
RECURSIVE Go_doc_lines(_, _)
Go_doc_lines(siblings, i) ==
    IF i >= 1 /\ siblings[i].type = "comment"
    THEN Go_doc_lines(siblings, i - 1) \o << Go_comment_line(siblings[i]) >>
    ELSE <<>>

\* go.py _preceding_doc(siblings, idx, content_bytes)
Go_preceding_doc(siblings, idx) == Strip(Join(Go_doc_lines(siblings, idx - 1), <<NL>>))

\* one pass of the loop over node.children in go.py _extract_function
Go_function_step(acc, child) ==
    IF child.type = "identifier" /\ acc.name = <<>>
    THEN [acc EXCEPT !.name = _node_text(child)]
    ELSE IF child.type = "field_identifier" /\ acc.name = <<>>
    THEN [acc EXCEPT !.name = _node_text(child)]
    ELSE IF child.type = "parameter_list"
    THEN IF acc.is_method /\ acc.param_list_count + 1 = 1
         THEN [acc EXCEPT !.param_list_count = @ + 1]
         ELSE IF acc.params = <<>>
         THEN [acc EXCEPT !.param_list_count = @ + 1,
                          !.params = Unparen(_node_text(child))]
         ELSE [acc EXCEPT !.param_list_count = @ + 1]
    ELSE IF child.type = "type_identifier"
    THEN [acc EXCEPT !.return_type = _node_text(child)]
    ELSE acc

\* go.py _extract_function(node, content_bytes, docstring)
Go_extract_function(node, docstring) ==
    LET acc == Loop(Go_function_step,
                    [name |-> <<>>, params |-> <<>>, return_type |-> <<>>,
                     is_method |-> (node.type = "method_declaration"),
                     param_list_count |-> 0],
                    node.children)
    IN  FunctionSig(acc.name, acc.params, acc.return_type, docstring)

\* go.py _extract_struct(node, content_bytes, docstring): node is the type_spec
Go_extract_struct(node, docstring) ==
    LET ids == ChildrenOfType(node, {"type_identifier"})
    IN  ClassSkeleton(IF ids = <<>> THEN <<>> ELSE _node_text(ids[1]), <<>>, docstring, <<>>)

\* the import paths of one import_spec: its string literals without the quotes
Go_import_spec(spec) ==
    LET lits == ChildrenOfType(spec, {"interpreted_string_literal"})
    IN  [k \in 1..Len(lits) |-> StripChars(Strip(_node_text(lits[k])), {DQ})]

\* the import paths of one import_declaration
Go_import_declaration(node) ==
    Flatten([k \in 1..Len(node.children) |->
        IF node.children[k].type = "import_spec"
        THEN Go_import_spec(node.children[k])
        ELSE IF node.children[k].type = "import_spec_list"
        THEN LET specs == ChildrenOfType(node.children[k], {"import_spec"})
             IN  Flatten([j \in 1..Len(specs) |-> Go_import_spec(specs[j])])
        ELSE <<>>])

\* the structs and interfaces of one type_declaration: one class per type_spec
\* that holds a struct_type or an interface_type
Go_type_declaration(node, doc) ==
    LET specs == ChildrenOfType(node, {"type_spec"})
    IN  Flatten([k \in 1..Len(specs) |->
            IF ChildrenOfType(specs[k], {"struct_type", "interface_type"}) # <<>>
            THEN << Go_extract_struct(specs[k], doc) >>
            ELSE <<>>])

\* GoExtractor.extract, the walk over the root's children
GoExtractor_extract_tree(file_name, root) ==
    LET siblings == Siblings(root)
        n == Len(siblings)
    IN  CodeSkeleton(file_name, Str_Go, <<>>,
            Flatten([idx \in 1..n |->
                IF siblings[idx].type = "import_declaration"
                THEN Go_import_declaration(siblings[idx]) ELSE <<>>]),
            Flatten([idx \in 1..n |->
                IF siblings[idx].type = "type_declaration"
                THEN Go_type_declaration(siblings[idx], Go_preceding_doc(siblings, idx))
                ELSE <<>>]),
            Flatten([idx \in 1..n |->
                IF siblings[idx].type \in {"function_declaration", "method_declaration"}
                THEN << Go_extract_function(siblings[idx], Go_preceding_doc(siblings, idx)) >>
                ELSE <<>>]))

(***************************************************************************)
(* Go sources, as the trees tree-sitter-go gives                           *)
(***************************************************************************)
\* import "n<i>"
Go_src_import(i) ==
    Node("import_declaration",
         << Token("import"),
            Node("import_spec",
                 << Leaf("interpreted_string_literal", <<DQ>> \o Ident(i) \o <<DQ>>) >>) >>)

\* import ( "n<i>1"; "n<i>2" )
Go_src_import_list(i) ==
    Node("import_declaration",
         << Token("import"),
            Node("import_spec_list",
                 << Token("("),
                    Node("import_spec",
                         << Leaf("interpreted_string_literal", <<DQ>> \o Ident2(i, 1) \o <<DQ>>) >>),
                    Node("import_spec",
                         << Leaf("interpreted_string_literal", <<DQ>> \o Ident2(i, 2) \o <<DQ>>) >>),
                    Token(")") >>) >>)

\* // d<i>
Go_src_comment(i) == Leaf("comment", <<"/", "/", SP, "d">> \o <<Digits[i]>>)

\* func n<i>(a int) int { type n<i>1 struct { } }
Go_src_func(i) ==
    Node("function_declaration",
         << Token("func"), Leaf("identifier", Ident(i)),
            Leaf("parameter_list", <<"(", "a", SP, "i", "n", "t", ")">>), Leaf("type_identifier", <<"i", "n", "t">>),
            Node("block",
                 << Token("{"),
                    Node("type_declaration",
                         << Token("type"),
                            Node("type_spec",
                                 << Leaf("type_identifier", Ident2(i, 1)),
                                    Node("struct_type", <<>>) >>) >>),
                    Token("}") >>) >>)

\* func n<i>() (int, error) { }
Go_src_func_results(i) ==
    Node("function_declaration",
         << Token("func"), Leaf("identifier", Ident(i)),
            Leaf("parameter_list", <<"(", ")">>), Leaf("parameter_list", <<"(", "i", "n", "t", ",", SP, "e", "r", "r", "o", "r", ")">>),
            Node("block", <<>>) >>)

\* func (s *Server) n<i>(a int, b int) int { }
Go_src_method(i) ==
    Node("method_declaration",
         << Token("func"), Leaf("parameter_list", <<"(", "s", SP, "*", "S", "e", "r", "v", "e", "r", ")">>),
            Leaf("field_identifier", Ident(i)),
            Leaf("parameter_list", <<"(", "a", SP, "i", "n", "t", ",", SP, "b", SP, "i", "n", "t", ")">>), Leaf("type_identifier", <<"i", "n", "t">>),
            Node("block", <<>>) >>)

\* func (s *Server) n<i>() (int, error) { }
Go_src_method_results(i) ==
    Node("method_declaration",
         << Token("func"), Leaf("parameter_list", <<"(", "s", SP, "*", "S", "e", "r", "v", "e", "r", ")">>),
            Leaf("field_identifier", Ident(i)),
            Leaf("parameter_list", <<"(", ")">>), Leaf("parameter_list", <<"(", "i", "n", "t", ",", SP, "e", "r", "r", "o", "r", ")">>),
            Node("block", <<>>) >>)

\* type n<i> struct { }
Go_src_struct(i) ==
    Node("type_declaration",
         << Token("type"),
            Node("type_spec",
                 << Leaf("type_identifier", Ident(i)), Node("struct_type", <<>>) >>) >>)

Go_kinds ==
    {"import", "import_list", "comment", "comment_gap", "func", "func_gap",
     "func_results", "method", "method_results", "struct", "error"}

\* the i-th top-level node of a Go source
Go_src(kind, i) ==
    CASE kind = "import" -> Go_src_import(i)
      [] kind = "import_list" -> Go_src_import_list(i)
      [] kind = "comment" -> Go_src_comment(i)
      [] kind = "comment_gap" -> AfterBlank(Go_src_comment(i))
      [] kind = "func" -> Go_src_func(i)
      [] kind = "func_gap" -> AfterBlank(Go_src_func(i))
      [] kind = "func_results" -> Go_src_func_results(i)
      [] kind = "method" -> Go_src_method(i)
      [] kind = "method_results" -> Go_src_method_results(i)
      [] kind = "struct" -> Go_src_struct(i)
      [] OTHER -> ErrorNode

(***************************************************************************)
(* languages/rust.py                                                       *)
(***************************************************************************)
\* str.rstrip(chars)
RStripChars(s, chars) == SubSeq(s, 1, LastKept(s, chars, Len(s)))

\* str.replace(old, ""): every occurrence of old removed, left to right
RECURSIVE RemoveAll(_, _)
RemoveAll(s, old) ==
    IF s = <<>> THEN <<>>
    ELSE IF StartsWithStr(s, old) THEN RemoveAll(SubSeq(s, Len(old) + 1, Len(s)), old)
    ELSE <<s[1]>> \o RemoveAll(Tail(s), old)

\* the while loop of rust.py _preceding_doc: line_comment nodes right before
\* index i that have a doc_comment child; the first one without stops the loop
RECURSIVE Rust_doc_lines(_, _)
Rust_doc_lines(siblings, i) ==
    IF i >= 1 /\ siblings[i].type = "line_comment"
    THEN LET docs == ChildrenOfType(siblings[i], {"doc_comment"})
         IN  IF docs = <<>> THEN <<>>
             ELSE Rust_doc_lines(siblings, i - 1) \o << Strip(_node_text(docs[1])) >>
    ELSE <<>>

\* rust.py _preceding_doc(siblings, idx, content_bytes)
Rust_preceding_doc(siblings, idx) ==
    Strip(Join(Rust_doc_lines(siblings, idx - 1), <<NL>>))

\* one pass of the loop over node.children in rust.py _extract_function
Rust_function_step(acc, child) ==
    IF child.type = "identifier" /\ acc.name = <<>>
    THEN [acc EXCEPT !.name = _node_text(child)]
    ELSE IF child.type = "parameters"
    THEN [acc EXCEPT !.params = Unparen(_node_text(child))]
    ELSE IF child.type \in {"type_identifier", "scoped_type_identifier", "generic_type"}
    THEN [acc EXCEPT !.return_type = _node_text(child)]
    ELSE acc

\* rust.py _extract_function(node, content_bytes, docstring)
Rust_extract_function(node, docstring) ==
    LET acc == Loop(Rust_function_step,
                    [name |-> <<>>, params |-> <<>>, return_type |-> <<>>],
                    node.children)
    IN  FunctionSig(acc.name, acc.params, acc.return_type, docstring)

\* one pass of the loop over node.children in _extract_struct_or_trait
Rust_struct_step(acc, child) ==
    IF child.type \in {"type_identifier", "identifier"} /\ acc.name = <<>>
    THEN [acc EXCEPT !.name = _node_text(child)]
    ELSE IF child.type = "trait_bounds"
    THEN LET subs == ChildrenOfType(child, {"type_identifier"})
         IN  [acc EXCEPT !.bases = @ \o [k \in 1..Len(subs) |-> _node_text(subs[k])]]
    ELSE acc

\* rust.py _extract_struct_or_trait(node, content_bytes, docstring)
Rust_extract_struct_or_trait(node, docstring) ==
    LET acc == Loop(Rust_struct_step, [name |-> <<>>, bases |-> <<>>], node.children)
    IN  ClassSkeleton(acc.name, acc.bases, docstring, <<>>)

\* the methods of one declaration_list of an impl block
Rust_impl_methods(decls) ==
    LET siblings == Siblings(decls)
    IN  Flatten([idx \in 1..Len(siblings) |->
            IF siblings[idx].type = "function_item"
            THEN << Rust_extract_function(siblings[idx], Rust_preceding_doc(siblings, idx)) >>
            ELSE <<>>])

\* one pass of the loop over node.children in _extract_impl
Rust_impl_step(acc, child) ==
    IF child.type = "type_identifier" /\ acc.name = <<>>
    THEN [acc EXCEPT !.name = _node_text(child)]
    ELSE IF child.type = "declaration_list"
    THEN [acc EXCEPT !.methods = @ \o Rust_impl_methods(child)]
    ELSE acc

\* rust.py _extract_impl(node, content_bytes)
Rust_extract_impl(node) ==
    LET acc == Loop(Rust_impl_step, [name |-> <<>>, methods |-> <<>>], node.children)
    IN  ClassSkeleton(<<"i", "m", "p", "l", SP>> \o acc.name, <<>>, <<>>, acc.methods)

\* imports.append(text.strip().rstrip(";").replace("use ", ""))
Rust_use(node) == RemoveAll(RStripChars(Strip(_node_text(node)), {";"}), <<"u", "s", "e", SP>>)

\* RustExtractor.extract, the walk over the root's children
RustExtractor_extract_tree(file_name, root) ==
    LET siblings == Siblings(root)
        n == Len(siblings)
    IN  CodeSkeleton(file_name, Str_Rust, <<>>,
            Flatten([idx \in 1..n |->
                IF siblings[idx].type = "use_declaration"
                THEN << Rust_use(siblings[idx]) >> ELSE <<>>]),
            Flatten([idx \in 1..n |->
                IF siblings[idx].type \in {"struct_item", "trait_item", "enum_item"}
                THEN << Rust_extract_struct_or_trait(siblings[idx],
                                                     Rust_preceding_doc(siblings, idx)) >>
                ELSE IF siblings[idx].type = "impl_item"
                THEN << Rust_extract_impl(siblings[idx]) >>
                ELSE <<>>]),
            Flatten([idx \in 1..n |->
                IF siblings[idx].type = "function_item"
                THEN << Rust_extract_function(siblings[idx], Rust_preceding_doc(siblings, idx)) >>
                ELSE <<>>]))

(***************************************************************************)
(* Rust sources, as the trees tree-sitter-rust gives                       *)
(***************************************************************************)
\* use n<i>;
Rust_src_use(i) == Leaf("use_declaration", <<"u", "s", "e", SP>> \o Ident(i) \o <<";">>)

\* /// d<i>     (the doc_comment child spans the text after the marker, with
\* the line break)
Rust_src_doc(i) ==
    Node("line_comment",
         << Token("//"), Token("outer_doc_comment_marker"),
            Leaf("doc_comment", <<SP, "d">> \o <<Digits[i], NL>>) >>)

\* // c<i>
Rust_src_comment(i) == Node("line_comment", << Token("//") >>)

\* fn <name>() -> Self { fn <name>1() { }  struct <name>2 { } }
Rust_src_fn(name) ==
    Node("function_item",
         << Token("fn"), Leaf("identifier", name), Leaf("parameters", <<"(", ")">>),
            Token("->"), Leaf("type_identifier", <<"S", "e", "l", "f">>),
            Node("block",
                 << Token("{"),
                    Node("function_item",
                         << Token("fn"), Leaf("identifier", name \o <<"1">>),
                            Leaf("parameters", <<"(", ")">>), Node("block", <<>>) >>),
                    Node("struct_item",
                         << Token("struct"), Leaf("type_identifier", name \o <<"2">>),
                            Node("field_declaration_list", <<>>) >>),
                    Token("}") >>) >>)

\* struct n<i> { }
Rust_src_struct(i) ==
    Node("struct_item",
         << Token("struct"), Leaf("type_identifier", Ident(i)),
            Node("field_declaration_list", <<>>) >>)

\* trait n<i>: n<i>1 + n<i>2 { fn n<i>3(); }
Rust_src_trait(i) ==
    Node("trait_item",
         << Token("trait"), Leaf("type_identifier", Ident(i)),
            Node("trait_bounds",
                 << Token(":"), Leaf("type_identifier", Ident2(i, 1)), Token("+"),
                    Leaf("type_identifier", Ident2(i, 2)) >>),
            Node("declaration_list",
                 << Token("{"),
                    Node("function_signature_item",
                         << Token("fn"), Leaf("identifier", Ident2(i, 3)),
                            Leaf("parameters", <<"(", ")">>), Token(";") >>),
                    Token("}") >>) >>)

\* impl n<i> { /// d1 fn n<i>2() -> Self { }  fn n<i>3() -> Self { } }
Rust_src_impl(i) ==
    Node("impl_item",
         << Token("impl"), Leaf("type_identifier", Ident(i)),
            Node("declaration_list",
                 << Token("{"), Rust_src_doc(1), Rust_src_fn(Ident2(i, 2)),
                    Rust_src_fn(Ident2(i, 3)), Token("}") >>) >>)

\* impl t<i> for n<i> { fn n<i>1() -> Self { } <unparsed text> fn n<i>3() -> Self { } }
Rust_src_impl_trait(i) ==
    Node("impl_item",
         << Token("impl"), Leaf("type_identifier", <<"t", Digits[i]>>), Token("for"),
            Leaf("type_identifier", Ident(i)),
            Node("declaration_list",
                 << Token("{"), Rust_src_fn(Ident2(i, 1)), ErrorNode,
                    Rust_src_fn(Ident2(i, 3)), Token("}") >>) >>)

Rust_kinds ==
    {"use", "doc", "doc_gap", "comment", "struct", "trait", "impl", "impl_trait",
     "fn", "fn_gap", "error"}

\* the i-th top-level node of a Rust source
Rust_src(kind, i) ==
    CASE kind = "use" -> Rust_src_use(i)
      [] kind = "doc" -> Rust_src_doc(i)
      [] kind = "doc_gap" -> AfterBlank(Rust_src_doc(i))
      [] kind = "comment" -> Rust_src_comment(i)
      [] kind = "struct" -> Rust_src_struct(i)
      [] kind = "trait" -> Rust_src_trait(i)
      [] kind = "impl" -> Rust_src_impl(i)
      [] kind = "impl_trait" -> Rust_src_impl_trait(i)
      [] kind = "fn" -> Rust_src_fn(Ident(i))
      [] kind = "fn_gap" -> AfterBlank(Rust_src_fn(Ident(i)))
      [] OTHER -> ErrorNode

(***************************************************************************)
(* languages/python.py                                                     *)
(***************************************************************************)
\* for q in quotes: if raw.startswith(q) and raw.endswith(q) and
\* len(raw) >= 2 * len(q): return raw[len(q):-len(q)].strip(); else raw
RECURSIVE StripQuotes(_, _)
StripQuotes(raw, quotes) ==
    IF quotes = <<>> THEN raw
    ELSE LET q == Head(quotes)
         IN  IF StartsWithStr(raw, q) /\ EndsWithStr(raw, q) /\ Len(raw) >= 2 * Len(q)
             THEN Strip(SubSeq(raw, Len(q) + 1, Len(raw) - Len(q)))
             ELSE StripQuotes(raw, Tail(quotes))

\* ('"""', "'''", '"', "'")
Python_quotes == << <<DQ, DQ, DQ>>, <<"'", "'", "'">>, <<DQ>>, <<"'">> >>

\* python.py _first_string_child(body_node, content_bytes), for a body that
\* is present: the first expression_statement child decides
Python_first_string_child(body) ==
    LET stmts == ChildrenOfType(body, {"expression_statement"})
    IN  IF stmts = <<>> THEN <<>>
        ELSE LET strs == ChildrenOfType(stmts[1], {"string", "concatenated_string"})
             IN  IF strs = <<>> THEN <<>>
                 ELSE StripQuotes(Strip(_node_text(strs[1])), Python_quotes)

\* the docstring of a definition whose block may be missing
Python_docstring(blocks) ==
    IF blocks = <<>> THEN <<>> ELSE Python_first_string_child(blocks[Len(blocks)])

\* one pass of the loop over node.children in python.py _extract_function
Python_function_step(acc, child) ==
    IF child.type = "identifier" THEN [acc EXCEPT !.name = _node_text(child)]
    ELSE IF child.type = "parameters" THEN [acc EXCEPT !.params = Unparen(_node_text(child))]
    ELSE IF child.type = "type" THEN [acc EXCEPT !.return_type = Strip(_node_text(child))]
    ELSE acc

\* python.py _extract_function(node, content_bytes)
Python_extract_function(node) ==
    LET acc == Loop(Python_function_step,
                    [name |-> <<>>, params |-> <<>>, return_type |-> <<>>],
                    node.children)
    IN  FunctionSig(acc.name, acc.params, acc.return_type,
                    Python_docstring(ChildrenOfType(node, {"block"})))

\* the bases of one argument_list: every child but the punctuation
Python_bases(args) ==
    LET subs == SelectSeq(args.children, LAMBDA a : a.type \notin {",", "(", ")"})
    IN  [k \in 1..Len(subs) |-> Strip(_node_text(subs[k]))]

\* mutant: the methods of the classes nested in the class body are collected
\* with the methods of the class
RECURSIVE Python_methods_nested(_)
Python_methods_nested(body) ==
    Flatten([k \in 1..Len(body.children) |->
        IF body.children[k].type = "function_definition"
        THEN << Python_extract_function(body.children[k]) >>
        ELSE IF body.children[k].type = "decorated_definition"
        THEN LET subs == ChildrenOfType(body.children[k], {"function_definition"})
             IN  [j \in 1..Len(subs) |-> Python_extract_function(subs[j])]
        ELSE IF body.children[k].type = "class_definition"
        THEN LET blocks == ChildrenOfType(body.children[k], {"block"})
             IN  IF blocks = <<>> THEN <<>> ELSE Python_methods_nested(blocks[Len(blocks)])
        ELSE <<>>])

\* the methods of a class body: its function definitions, decorated or not
Python_methods(body) ==
    Flatten([k \in 1..Len(body.children) |->
        IF body.children[k].type = "function_definition"
        THEN << Python_extract_function(body.children[k]) >>
        ELSE IF body.children[k].type = "decorated_definition"
        THEN LET subs == ChildrenOfType(body.children[k], {"function_definition"})
             IN  [j \in 1..Len(subs) |-> Python_extract_function(subs[j])]
        ELSE <<>>])

\* python.py _extract_class(node, content_bytes)
Python_extract_class(node) ==
    LET ids == ChildrenOfType(node, {"identifier"})
        lists == ChildrenOfType(node, {"argument_list"})
        blocks == ChildrenOfType(node, {"block"})
    IN  ClassSkeleton(IF ids = <<>> THEN <<>> ELSE _node_text(ids[Len(ids)]),
                      Flatten([k \in 1..Len(lists) |-> Python_bases(lists[k])]),
                      Python_docstring(blocks),
                      IF blocks = <<>> THEN <<>> ELSE Python_methods(blocks[Len(blocks)]))

\* python.py _extract_imports(node, content_bytes) for `import a, b` and
\* `from m import a, b`
Python_extract_imports(node) ==
    LET names == ChildrenOfType(node, {"dotted_name"})
    IN  IF node.type = "import_statement"
        THEN [k \in 1..Len(names) |-> _node_text(names[k])]
        ELSE IF Len(names) > 1
        THEN [k \in 1..(Len(names) - 1) |->
                 _node_text(names[1]) \o <<".">> \o _node_text(names[k + 1])]
        ELSE [k \in 1..Len(names) |-> _node_text(names[k])]

\* PythonExtractor.extract, the module docstring loop: comments are skipped, the
\* first other node ends the loop, and it counts if it is an
\* expression_statement holding a string
RECURSIVE Python_module_doc(_)
Python_module_doc(siblings) ==
    IF siblings = <<>> THEN <<>>
    ELSE IF Head(siblings).type = "expression_statement"
    THEN LET strs == ChildrenOfType(Head(siblings), {"string", "concatenated_string"})
         IN  IF strs = <<>> THEN <<>>
             ELSE StripQuotes(Strip(_node_text(strs[Len(strs)])), Python_quotes)
    ELSE IF Head(siblings).type \notin {"comment", "newline"} THEN <<>>
    ELSE Python_module_doc(Tail(siblings))

\* the class or function of a decorated_definition: the first one of its children
Python_decorated(node, type) ==
    LET subs == ChildrenOfType(node, {"class_definition", "function_definition"})
    IN  IF subs # <<>> /\ subs[1].type = type THEN << subs[1] >> ELSE <<>>

\* PythonExtractor.extract, the walk over the root's children
PythonExtractor_extract_tree(file_name, root) ==
    LET siblings == Siblings(root)
        n == Len(siblings)
    IN  CodeSkeleton(file_name, Str_Python, Python_module_doc(siblings),
            Flatten([idx \in 1..n |->
                IF siblings[idx].type \in {"import_statement", "import_from_statement"}
                THEN Python_extract_imports(siblings[idx]) ELSE <<>>]),
            Flatten([idx \in 1..n |->
                IF siblings[idx].type = "class_definition"
                THEN << Python_extract_class(siblings[idx]) >>
                ELSE IF siblings[idx].type = "decorated_definition"
                THEN LET subs == Python_decorated(siblings[idx], "class_definition")
                     IN  [k \in 1..Len(subs) |-> Python_extract_class(subs[k])]
                ELSE <<>>]),
            Flatten([idx \in 1..n |->
                IF siblings[idx].type = "function_definition"
                THEN << Python_extract_function(siblings[idx]) >>
                ELSE IF siblings[idx].type = "decorated_definition"
                THEN LET subs == Python_decorated(siblings[idx], "function_definition")
                     IN  [k \in 1..Len(subs) |-> Python_extract_function(subs[k])]
                ELSE <<>>]))

(***************************************************************************)
(* Python sources, as the trees tree-sitter-python gives                   *)
(***************************************************************************)
\* """d<i>"""   as a statement
Python_src_string(i) ==
    Node("expression_statement",
         << Leaf("string", QQQ \o <<"d", Digits[i]>> \o QQQ) >>)

\* r"""d<i>"""  as a statement
Python_src_raw_string(i) ==
    Node("expression_statement",
         << Leaf("string", <<"r">> \o QQQ \o <<"d", Digits[i]>> \o QQQ) >>)

\* n<i>()       as a statement
Python_src_call(i) ==
    Node("expression_statement", << Leaf("call", Ident(i) \o <<"(", ")">>) >>)

\* def <name>(x): <body>
Python_src_def(name, body) ==
    Node("function_definition",
         << Token("def"), Leaf("identifier", name), Leaf("parameters", <<"(", "x", ")">>),
            Token(":"), Node("block", body) >>)

\* import n<i>
Python_src_import(i) ==
    Node("import_statement", << Token("import"), Leaf("dotted_name", Ident(i)) >>)

\* from n<i> import n<i>1, n<i>2
Python_src_from_import(i) ==
    Node("import_from_statement",
         << Token("from"), Leaf("dotted_name", Ident(i)), Token("import"),
            Leaf("dotted_name", Ident2(i, 1)), Token(","),
            Leaf("dotted_name", Ident2(i, 2)) >>)

\* class n<i>(n<i>1, n<i>2):
\*     """d<i>"""
\*     def n<i>3(x):
\*         n<i>(); """d3"""
\*         def n<i>31(x): pass
\*     @dec
\*     def n<i>4(x): pass
\*     class n<i>5:
\*         def n<i>51(x): pass
Python_src_class(i) ==
    Node("class_definition",
         << Token("class"), Leaf("identifier", Ident(i)),
            Node("argument_list",
                 << Token("("), Leaf("identifier", Ident2(i, 1)), Token(","),
                    Leaf("identifier", Ident2(i, 2)), Token(")") >>),
            Token(":"),
            Node("block",
                 << Python_src_string(i),
                    Python_src_def(Ident2(i, 3),
                        << Python_src_call(i), Python_src_string(3),
                           Python_src_def(Ident2(i, 3) \o <<"1">>, << Token("pass_statement") >>) >>),
                    Node("decorated_definition",
                         << Leaf("decorator", <<"@", "d", "e", "c">>),
                            Python_src_def(Ident2(i, 4), << Token("pass_statement") >>) >>),
                    Node("class_definition",
                         << Token("class"), Leaf("identifier", Ident2(i, 5)), Token(":"),
                            Node("block",
                                 << Python_src_def(Ident2(i, 5) \o <<"1">>,
                                                   << Token("pass_statement") >>) >>) >>) >>) >>)

Python_kinds ==
    {"import", "from_import", "comment", "string", "raw_string", "call", "class",
     "def_doc", "def_late", "decorated", "error"}

\* the i-th top-level node of a Python source
Python_src(kind, i) ==
    CASE kind = "import" -> Python_src_import(i)
      [] kind = "from_import" -> Python_src_from_import(i)
      [] kind = "comment" -> Leaf("comment", <<"#", SP, "c">>)
      [] kind = "string" -> Python_src_string(i)
      [] kind = "raw_string" -> Python_src_raw_string(i)
      [] kind = "call" -> Python_src_call(i)
      [] kind = "class" -> Python_src_class(i)
      [] kind = "def_doc" -> Python_src_def(Ident(i), << Python_src_string(i) >>)
      [] kind = "def_late" ->
             Python_src_def(Ident(i),
                 << Token("pass_statement"), Python_src_string(i),
                    Python_src_def(Ident2(i, 1), << Token("pass_statement") >>),
                    Node("class_definition",
                         << Token("class"), Leaf("identifier", Ident2(i, 2)), Token(":"),
                            Node("block", << Token("pass_statement") >>) >>) >>)
      [] kind = "decorated" ->
             Node("decorated_definition",
                  << Leaf("decorator", <<"@", "d", "e", "c">>),
                     Python_src_def(Ident(i), << Python_src_string(i) >>) >>)
      [] OTHER -> ErrorNode

(***************************************************************************)
(* languages/js_ts.py                                                      *)
(***************************************************************************)
\* str.lstrip(chars)
LStripChars(s, chars) == SubSeq(s, FirstKept(s, chars, 1), Len(s))

\* Strip /** ... */ markers and the leading * of each line, drop empty lines:
\* _parse_jsdoc of js_ts.py, _parse_block_comment of java.py and cpp.py
_parse_block_comment(text0) ==
    LET raw0 == Strip(text0)
        raw1 == IF StartsWithStr(raw0, <<"/", "*", "*">>) THEN SubSeq(raw0, 4, Len(raw0))
                ELSE IF StartsWithStr(raw0, <<"/", "*">>) THEN SubSeq(raw0, 3, Len(raw0))
                ELSE raw0
        raw2 == IF EndsWithStr(raw1, <<"*", "/">>) THEN SubSeq(raw1, 1, Len(raw1) - 2) ELSE raw1
        parts == Split(raw2, NL)
        lines == [k \in 1..Len(parts) |-> Strip(LStripChars(Strip(parts[k]), {"*"}))]
    IN  Strip(Join(SelectSeq(lines, LAMBDA l : l # <<>>), <<NL>>))

\* js_ts.py _preceding_doc(siblings, idx, content_bytes)
JsTs_preceding_doc(siblings, idx) ==
    IF idx = 1 THEN <<>>
    ELSE IF siblings[idx - 1].type # "comment" THEN <<>>
    ELSE LET raw == Strip(_node_text(siblings[idx - 1]))
         IN  IF StartsWithStr(raw, <<"/", "*">>) THEN _parse_block_comment(raw)
             ELSE IF StartsWithStr(raw, <<"/", "/">>) THEN Strip(SubSeq(raw, 3, Len(raw)))
             ELSE <<>>

\* the quotes _first_string_in_body tries, in its order; the grave accent that
\* ends its list is left out: no node of type string begins with one (a
\* template literal is a template_string node)
JsTs_quotes == << <<DQ, DQ, DQ>>, <<"'", "'", "'">>, <<DQ>>, <<"'">> >>

\* js_ts.py _first_string_in_body(body_node, content_bytes), for a body that
\* is present: the first expression_statement child decides
JsTs_first_string_in_body(body) ==
    LET stmts == ChildrenOfType(body, {"expression_statement"})
    IN  IF stmts = <<>> THEN <<>>
        ELSE LET strs == ChildrenOfType(stmts[1], {"string"})
             IN  IF strs = <<>> THEN <<>>
                 ELSE StripQuotes(Strip(_node_text(strs[1])), JsTs_quotes)

\* one pass of the loop over node.children in js_ts.py _extract_function
JsTs_function_step(acc, child) ==
    IF child.type = "identifier" /\ acc.name = <<>>
    THEN [acc EXCEPT !.name = _node_text(child)]
    ELSE IF child.type = "property_identifier" /\ acc.name = <<>>
    THEN [acc EXCEPT !.name = _node_text(child)]
    ELSE IF child.type \in {"formal_parameters", "call_signature"}
    THEN [acc EXCEPT !.params = Unparen(_node_text(child))]
    ELSE IF child.type = "type_annotation"
    THEN LET subs == SelectSeq(child.children, LAMBDA s : s.type # ":")
         IN  IF subs = <<>> THEN acc
             ELSE [acc EXCEPT !.return_type = Strip(_node_text(subs[1]))]
    ELSE acc

\* js_ts.py _extract_function(node, content_bytes, lang_name, docstring)
JsTs_extract_function(node, docstring) ==
    LET acc == Loop(JsTs_function_step,
                    [name |-> <<>>, params |-> <<>>, return_type |-> <<>>],
                    node.children)
        bodies == ChildrenOfType(node, {"statement_block"})
    IN  FunctionSig(acc.name, acc.params, acc.return_type,
                    IF docstring # <<>> THEN docstring
                    ELSE IF bodies = <<>> THEN <<>>
                    ELSE JsTs_first_string_in_body(bodies[Len(bodies)]))

\* fn.name = the text of the first property_identifier or identifier of the field
JsTs_field_name(node) ==
    LET ids == ChildrenOfType(node, {"property_identifier", "identifier"})
    IN  IF ids = <<>> THEN <<>> ELSE _node_text(ids[1])

\* the methods of one class_body: method definitions, and fields holding an
\* arrow function
JsTs_methods(body) ==
    LET siblings == Siblings(body)
    IN  Flatten([idx \in 1..Len(siblings) |->
            IF siblings[idx].type = "method_definition"
            THEN << JsTs_extract_function(siblings[idx], JsTs_preceding_doc(siblings, idx)) >>
            ELSE IF siblings[idx].type = "public_field_definition"
                    /\ ChildrenOfType(siblings[idx], {"arrow_function"}) # <<>>
            THEN LET fn == JsTs_extract_function(
                               ChildrenOfType(siblings[idx], {"arrow_function"})[1],
                               JsTs_preceding_doc(siblings, idx))
                     ids == ChildrenOfType(siblings[idx], {"property_identifier", "identifier"})
                 IN  << IF ids = <<>> THEN fn
                        ELSE [fn EXCEPT !.name = JsTs_field_name(siblings[idx])] >>
            ELSE <<>>])

\* the bases of one class_heritage: the names inside its extends_clause nodes
JsTs_bases(heritage) ==
    LET clauses == ChildrenOfType(heritage, {"extends_clause"})
    IN  Flatten([k \in 1..Len(clauses) |->
            LET subs == ChildrenOfType(clauses[k],
                            {"identifier", "type_identifier", "member_expression"})
            IN  [j \in 1..Len(subs) |-> _node_text(subs[j])]])

\* one pass of the loop over node.children in js_ts.py _extract_class
JsTs_class_step(acc, child) ==
    IF child.type = "identifier" /\ acc.name = <<>>
    THEN [acc EXCEPT !.name = _node_text(child)]
    ELSE IF child.type = "type_identifier" /\ acc.name = <<>>
    THEN [acc EXCEPT !.name = _node_text(child)]
    ELSE IF child.type = "class_heritage"
    THEN [acc EXCEPT !.bases = @ \o JsTs_bases(child)]
    ELSE acc

\* js_ts.py _extract_class(node, content_bytes, lang_name, docstring)
JsTs_extract_class(node, docstring) ==
    LET acc == Loop(JsTs_class_step, [name |-> <<>>, bases |-> <<>>], node.children)
        bodies == ChildrenOfType(node, {"class_body"})
    IN  ClassSkeleton(acc.name, acc.bases,
                      IF docstring # <<>> THEN docstring
                      ELSE IF bodies = <<>> THEN <<>>
                      ELSE JsTs_first_string_in_body(bodies[Len(bodies)]),
                      IF bodies = <<>> THEN <<>> ELSE JsTs_methods(bodies[Len(bodies)]))

\* the import path of one import_statement: its first string, without quotes
JsTs_import_path(node) ==
    LET strs == ChildrenOfType(node, {"string"})
    IN  IF strs = <<>> THEN <<>>
        ELSE << StripChars(Strip(_node_text(strs[1])), {DQ, "'"}) >>

\* the class or function an export_statement exports: the first one of its children
JsTs_exported(node, types) ==
    LET subs == ChildrenOfType(node, {"class_declaration", "function_declaration",
                                      "generator_function_declaration"})
    IN  IF subs # <<>> /\ subs[1].type \in types THEN << subs[1] >> ELSE <<>>

\* one pass of the loop over the children of a variable_declarator
JsTs_declarator_step(acc, child) ==
    IF child.type = "identifier" THEN [acc EXCEPT !.fn_name = _node_text(child)]
    ELSE IF child.type = "arrow_function"
    THEN [acc EXCEPT !.functions =
              @ \o << [JsTs_extract_function(child, acc.doc) EXCEPT !.name = acc.fn_name] >>]
    ELSE acc

\* the arrow functions one lexical_declaration binds
JsTs_lexical_declaration(node, doc) ==
    LET decls == ChildrenOfType(node, {"variable_declarator"})
    IN  Flatten([k \in 1..Len(decls) |->
            Loop(JsTs_declarator_step,
                 [fn_name |-> <<>>, doc |-> doc, functions |-> <<>>],
                 decls[k].children).functions])

\* JsTsExtractor.extract, the walk over the root's children
JsTsExtractor_extract_tree(lang, file_name, root) ==
    LET siblings == Siblings(root)
        n == Len(siblings)
        doc(idx) == JsTs_preceding_doc(siblings, idx)
        fn_types == {"function_declaration", "generator_function_declaration"}
    IN  CodeSkeleton(file_name, JsTs_lang_name(lang), <<>>,
            JsTs_imports(
                Flatten([idx \in 1..n |->
                    IF siblings[idx].type = "import_statement"
                    THEN JsTs_import_path(siblings[idx]) ELSE <<>>]),
                JsTs_seen_at_entry),
            Flatten([idx \in 1..n |->
                IF siblings[idx].type = "class_declaration"
                THEN << JsTs_extract_class(siblings[idx], doc(idx)) >>
                ELSE IF siblings[idx].type = "export_statement"
                THEN LET subs == JsTs_exported(siblings[idx], {"class_declaration"})
                     IN  [k \in 1..Len(subs) |-> JsTs_extract_class(subs[k], doc(idx))]
                ELSE <<>>]),
            Flatten([idx \in 1..n |->
                IF siblings[idx].type \in fn_types
                THEN << JsTs_extract_function(siblings[idx], doc(idx)) >>
                ELSE IF siblings[idx].type = "export_statement"
                THEN LET subs == JsTs_exported(siblings[idx], fn_types)
                     IN  [k \in 1..Len(subs) |-> JsTs_extract_function(subs[k], doc(idx))]
                ELSE IF siblings[idx].type = "lexical_declaration"
                THEN JsTs_lexical_declaration(siblings[idx], doc(idx))
                ELSE <<>>]))

(***************************************************************************)
(* JavaScript sources, as the trees tree-sitter-javascript gives           *)
(***************************************************************************)
\* "d<i>";
JsTs_src_string(i) ==
    Node("expression_statement",
         << Leaf("string", <<DQ, "d", Digits[i], DQ>>), Token(";") >>)

\* { <statements> }
JsTs_src_block(stmts) == Node("statement_block", << Token("{") >> \o stmts \o << Token("}") >>)

\* function <name>(x) { <statements> }
JsTs_src_function(name, stmts) ==
    Node("function_declaration",
         << Token("function"), Leaf("identifier", name), Leaf("formal_parameters", <<"(", "x", ")">>),
            JsTs_src_block(stmts) >>)

\* let y = 1;
JsTs_src_let ==
    Node("lexical_declaration",
         << Token("let"),
            Node("variable_declarator", << Leaf("identifier", <<"y">>), Token("="),
                                           Leaf("number", <<"1">>) >>),
            Token(";") >>)

\* p<i> => { }: an arrow function with a single parameter without parentheses
JsTs_src_bare_arrow(name) ==
    Node("arrow_function",
         << Leaf("identifier", <<"p">> \o SubSeq(name, 2, Len(name))), Token("=>"),
            JsTs_src_block(<<>>) >>)

\* export const n<i> = p<i> => { };
JsTs_src_export_arrow(i) ==
    Node("export_statement",
         << Token("export"),
            Node("lexical_declaration",
                 << Token("const"),
                    Node("variable_declarator",
                         << Leaf("identifier", Ident(i)), Token("="),
                            JsTs_src_bare_arrow(Ident(i)) >>),
                    Token(";") >>) >>)

\* const n<i> = (x) => { };
JsTs_src_arrow(i) ==
    Node("lexical_declaration",
         << Token("const"),
            Node("variable_declarator",
                 << Leaf("identifier", Ident(i)), Token("="),
                    Node("arrow_function",
                         << Leaf("formal_parameters", <<"(", "x", ")">>), Token("=>"),
                            JsTs_src_block(<<>>) >>) >>),
            Token(";") >>)

\* class n<i> extends n<i>1 {
\*   /** d1 */ n<i>2(x) { }
\*   n<i>3 = (x) => { };
\*   <unparsed text>
\*   n<i>5(x) { n<i>(); "d5"; function n<i>51(x) { } }
\*   #n<i>6 = p<i>6 => { };
\* }
\* tree-sitter-javascript puts the base directly under class_heritage, names
\* the class by an identifier and gives a field as a field_definition;
\* tree-sitter-typescript wraps the base in an extends_clause, names the class
\* by a type_identifier and gives a field as a public_field_definition
JsTs_src_class(lang, i) ==
    Node("class_declaration",
         << Token("class"),
            Leaf(IF lang = "javascript" THEN "identifier" ELSE "type_identifier", Ident(i)),
            Node("class_heritage",
                 IF lang = "javascript"
                 THEN << Token("extends"), Leaf("identifier", Ident2(i, 1)) >>
                 ELSE << Node("extends_clause",
                              << Token("extends"), Leaf("identifier", Ident2(i, 1)) >>) >>),
            Node("class_body",
                 << Token("{"),
                    Leaf("comment", <<"/", "*", "*", SP, "d", "1", SP, "*", "/">>),
                    Node("method_definition",
                         << Leaf("property_identifier", Ident2(i, 2)),
                            Leaf("formal_parameters", <<"(", "x", ")">>), JsTs_src_block(<<>>) >>),
                    Node(IF lang = "javascript" THEN "field_definition"
                         ELSE "public_field_definition",
                         << Leaf("property_identifier", Ident2(i, 3)), Token("="),
                            Node("arrow_function",
                                 << Leaf("formal_parameters", <<"(", "x", ")">>), Token("=>"),
                                    JsTs_src_block(<<>>) >>) >>),
                    ErrorNode,
                    Node("method_definition",
                         << Leaf("property_identifier", Ident2(i, 5)),
                            Leaf("formal_parameters", <<"(", "x", ")">>),
                            JsTs_src_block(
                                << Node("expression_statement",
                                        << Leaf("call_expression", Ident(i) \o <<"(", ")">>),
                                           Token(";") >>),
                                   JsTs_src_string(5),
                                   JsTs_src_function(Ident2(i, 5) \o <<"1">>, <<>>) >>) >>),
                    Node(IF lang = "javascript" THEN "field_definition"
                         ELSE "public_field_definition",
                         << Leaf("private_property_identifier", <<"#">> \o Ident2(i, 6)),
                            Token("="), JsTs_src_bare_arrow(Ident2(i, 6)) >>),
                    Token("}") >>) >>)

JsTs_kinds ==
    {"import", "comment", "jsdoc", "class", "function_doc", "function_late",
     "export", "arrow", "export_arrow", "error"}

\* the i-th top-level node of a JavaScript or TypeScript source
JsTs_src(lang, kind, i) ==
    CASE kind = "import" ->
             Node("import_statement",
                  << Token("import"), Leaf("string", <<DQ>> \o Ident(i) \o <<DQ>>), Token(";") >>)
      [] kind = "comment" -> Leaf("comment", <<"/", "/", SP, "d">> \o <<Digits[i]>>)
      [] kind = "jsdoc" -> Leaf("comment", <<"/", "*", "*">> \o <<NL>> \o <<SP, "*", SP, "d">> \o <<Digits[i], NL>> \o <<SP, "*", "/">>)
      [] kind = "class" -> JsTs_src_class(lang, i)
      [] kind = "function_doc" -> JsTs_src_function(Ident(i), << JsTs_src_string(i) >>)
      [] kind = "function_late" ->
             JsTs_src_function(Ident(i),
                 << JsTs_src_let, JsTs_src_string(i),
                    JsTs_src_function(Ident2(i, 1), <<>>),
                    Node("class_declaration",
                         << Token("class"),
                            Leaf(IF lang = "javascript" THEN "identifier" ELSE "type_identifier",
                                 Ident2(i, 2)),
                            Node("class_body", << Token("{"), Token("}") >>) >>) >>)
      [] kind = "export" ->
             Node("export_statement",
                  << Token("export"), JsTs_src_function(Ident(i), <<>>) >>)
      [] kind = "arrow" -> JsTs_src_arrow(i)
      [] kind = "export_arrow" -> JsTs_src_export_arrow(i)
      [] OTHER -> ErrorNode

(***************************************************************************)
(* languages/java.py                                                       *)
(***************************************************************************)
\* mutant: the nearest block comment above the declaration is taken, whatever
\* stands in between
Java_preceding_doc_nearest(siblings, idx) ==
    LET above == {j \in 1..(idx - 1) : siblings[j].type = "block_comment"}
    IN  IF above = {} THEN <<>>
        ELSE _parse_block_comment(_node_text(siblings[SetMax(above)]))

\* java.py _preceding_doc(siblings, idx, content_bytes)
Java_preceding_doc(siblings, idx) ==
    IF idx = 1 THEN <<>>
    ELSE IF siblings[idx - 1].type = "block_comment"
    THEN _parse_block_comment(_node_text(siblings[idx - 1]))
    ELSE <<>>

\* one pass of the loop over node.children in java.py _extract_method
Java_method_step(acc, child) ==
    IF child.type = "identifier" /\ acc.name = <<>>
    THEN IF acc.return_type # <<>> THEN [acc EXCEPT !.name = _node_text(child)] ELSE acc
    ELSE IF child.type \in {"type_identifier", "void_type", "integral_type",
                            "floating_point_type", "boolean_type", "array_type",
                            "generic_type"}
    THEN IF acc.return_type = <<>> THEN [acc EXCEPT !.return_type = _node_text(child)]
         ELSE acc
    ELSE IF child.type = "formal_parameters"
    THEN [acc EXCEPT !.params = Unparen(_node_text(child))]
    ELSE acc

\* java.py _extract_method(node, content_bytes, docstring)
Java_extract_method(node, docstring) ==
    LET acc == Loop(Java_method_step,
                    [name |-> <<>>, params |-> <<>>, return_type |-> <<>>],
                    node.children)
    IN  FunctionSig(acc.name, acc.params, acc.return_type, docstring)

\* one pass of the loop over node.children in java.py _extract_class
Java_class_step(acc, child) ==
    IF child.type \in {"type_identifier", "identifier"} /\ acc.name = <<>>
    THEN [acc EXCEPT !.name = _node_text(child)]
    ELSE IF child.type = "superclass"
    THEN LET subs == ChildrenOfType(child, {"type_identifier"})
         IN  [acc EXCEPT !.bases = @ \o [k \in 1..Len(subs) |-> _node_text(subs[k])]]
    ELSE IF child.type = "super_interfaces"
    THEN LET lists == ChildrenOfType(child, {"type_list"})
         IN  [acc EXCEPT !.bases = @ \o
                  Flatten([k \in 1..Len(lists) |->
                      LET subs == ChildrenOfType(lists[k], {"type_identifier"})
                      IN  [j \in 1..Len(subs) |-> _node_text(subs[j])]])]
    ELSE acc

\* the methods of one class_body
Java_methods(body) ==
    LET siblings == Siblings(body)
    IN  Flatten([idx \in 1..Len(siblings) |->
            IF siblings[idx].type \in {"method_declaration", "constructor_declaration"}
            THEN << Java_extract_method(siblings[idx], Java_preceding_doc(siblings, idx)) >>
            ELSE <<>>])

\* java.py _extract_class(node, content_bytes, docstring)
Java_extract_class(node, docstring) ==
    LET acc == Loop(Java_class_step, [name |-> <<>>, bases |-> <<>>], node.children)
        bodies == ChildrenOfType(node, {"class_body"})
    IN  ClassSkeleton(acc.name, acc.bases, docstring,
                      IF bodies = <<>> THEN <<>> ELSE Java_methods(bodies[Len(bodies)]))

\* the names one import_declaration imports
Java_import_declaration(node) ==
    LET subs == ChildrenOfType(node, {"scoped_identifier", "identifier"})
    IN  [k \in 1..Len(subs) |-> _node_text(subs[k])]

\* JavaExtractor.extract, the walk over the root's children
JavaExtractor_extract_tree(file_name, root) ==
    LET siblings == Siblings(root)
        n == Len(siblings)
    IN  CodeSkeleton(file_name, Str_Java, <<>>,
            Flatten([idx \in 1..n |->
                IF siblings[idx].type = "import_declaration"
                THEN Java_import_declaration(siblings[idx]) ELSE <<>>]),
            Flatten([idx \in 1..n |->
                IF siblings[idx].type \in {"class_declaration", "interface_declaration",
                                           "enum_declaration"}
                THEN << Java_extract_class(siblings[idx], Java_preceding_doc(siblings, idx)) >>
                ELSE <<>>]),
            <<>>)

(***************************************************************************)
(* Java sources, as the trees tree-sitter-java gives                       *)
(***************************************************************************)
\* void <name>(int x) { }
Java_src_method(name) ==
    Node("method_declaration",
         << Leaf("void_type", <<"v", "o", "i", "d">>), Leaf("identifier", name),
            Leaf("formal_parameters", <<"(", "i", "n", "t", SP, "x", ")">>), Node("block", <<>>) >>)

\* class n<i> extends n<i>1 implements n<i>2, n<i>3 {
\*   n<i>(int x) { }
\*   /** d1 */ void n<i>4(int x) { }
\*   <unparsed text>
\*   void n<i>6(int x) { }
\*   class n<i>7 { void n<i>71(int x) { } }
\* }
Java_src_class(i) ==
    Node("class_declaration",
         << Token("class"), Leaf("identifier", Ident(i)),
            Node("superclass", << Token("extends"), Leaf("type_identifier", Ident2(i, 1)) >>),
            Node("super_interfaces",
                 << Token("implements"),
                    Node("type_list",
                         << Leaf("type_identifier", Ident2(i, 2)), Token(","),
                            Leaf("type_identifier", Ident2(i, 3)) >>) >>),
            Node("class_body",
                 << Token("{"),
                    Node("constructor_declaration",
                         << Leaf("identifier", Ident(i)),
                            Leaf("formal_parameters", <<"(", "i", "n", "t", SP, "x", ")">>),
                            Node("constructor_body", << Token("{"), Token("}") >>) >>),
                    Leaf("block_comment", <<"/", "*", "*", SP, "d", "1", SP, "*", "/">>),
                    Java_src_method(Ident2(i, 4)), ErrorNode,
                    Java_src_method(Ident2(i, 6)),
                    Node("class_declaration",
                         << Token("class"), Leaf("identifier", Ident2(i, 7)),
                            Node("class_body",
                                 << Token("{"), Java_src_method(Ident2(i, 7) \o <<"1">>),
                                    Token("}") >>) >>),
                    Token("}") >>) >>)

\* interface n<i> { void n<i>1(int x); }
Java_src_interface(i) ==
    Node("interface_declaration",
         << Token("interface"), Leaf("identifier", Ident(i)),
            Node("interface_body",
                 << Token("{"), Java_src_method(Ident2(i, 1)), Token("}") >>) >>)

Java_kinds == {"import", "block_comment", "plain_comment", "class", "interface", "error"}

\* the i-th top-level node of a Java source
Java_src(kind, i) ==
    CASE kind = "import" ->
             Node("import_declaration",
                  << Token("import"), Leaf("scoped_identifier", <<"p", ".">> \o Ident(i)), Token(";") >>)
      [] kind = "block_comment" -> Leaf("block_comment", <<"/", "*", "*", SP, "d">> \o <<Digits[i]>> \o <<SP, "*", "/">>)
      [] kind = "plain_comment" -> Leaf("block_comment", <<"/", "*", SP, "d">> \o <<Digits[i]>> \o <<SP, "*", "/">>)
      [] kind = "class" -> Java_src_class(i)
      [] kind = "interface" -> Java_src_interface(i)
      [] OTHER -> ErrorNode

(***************************************************************************)
(* languages/cpp.py                                                        *)
(***************************************************************************)
\* cpp.py _preceding_doc(siblings, idx, content_bytes)
Cpp_preceding_doc(siblings, idx) ==
    IF idx = 1 THEN <<>>
    ELSE IF siblings[idx - 1].type = "comment"
    THEN _parse_block_comment(_node_text(siblings[idx - 1]))
    ELSE <<>>

\* cpp.py _extract_function_declarator(node, content_bytes): [name, params]
RECURSIVE Cpp_extract_function_declarator(_)

\* one pass of its loop over node.children
Cpp_declarator_step(acc, child) ==
    IF child.type \in {"identifier", "field_identifier"} /\ acc.name = <<>>
    THEN [acc EXCEPT !.name = _node_text(child)]
    ELSE IF child.type = "qualified_identifier" /\ acc.name = <<>>
    THEN [acc EXCEPT !.name = _node_text(child)]
    ELSE IF child.type = "function_declarator"
    THEN LET np == Cpp_extract_function_declarator(child)
         IN  [name |-> IF np.name # <<>> THEN np.name ELSE acc.name,
              params |-> IF np.params # <<>> THEN np.params ELSE acc.params]
    ELSE IF child.type = "parameter_list"
    THEN [acc EXCEPT !.params = Unparen(_node_text(child))]
    ELSE acc

Cpp_extract_function_declarator(node) ==
    Loop(Cpp_declarator_step, [name |-> <<>>, params |-> <<>>], node.children)

\* one pass of the loop over node.children in cpp.py _extract_function
Cpp_function_step(acc, child) ==
    IF child.type = "function_declarator"
    THEN LET np == Cpp_extract_function_declarator(child)
         IN  [acc EXCEPT !.name = np.name, !.params = np.params]
    ELSE IF child.type \in {"type_specifier", "primitive_type", "type_identifier",
                            "qualified_identifier", "auto"}
    THEN IF acc.return_type = <<>> THEN [acc EXCEPT !.return_type = _node_text(child)]
         ELSE acc
    ELSE IF child.type = "pointer_declarator"
    THEN LET subs == ChildrenOfType(child, {"function_declarator"})
         IN  IF subs = <<>> THEN acc
             ELSE LET np == Cpp_extract_function_declarator(subs[Len(subs)])
                  IN  [acc EXCEPT !.name = np.name, !.params = np.params]
    ELSE acc

\* cpp.py _extract_function(node, content_bytes, docstring)
Cpp_extract_function(node, docstring) ==
    LET acc == Loop(Cpp_function_step,
                    [name |-> <<>>, params |-> <<>>, return_type |-> <<>>],
                    node.children)
    IN  FunctionSig(acc.name, acc.params, acc.return_type, docstring)

\* one pass of the loop over the children of a declaration or field_declaration
\* of a class body; the first function_declarator ends the loop
Cpp_field_step(acc, child) ==
    IF acc.done THEN acc
    ELSE IF child.type \in {"type_specifier", "primitive_type", "type_identifier",
                            "qualified_identifier"} /\ acc.ret_type = <<>>
    THEN [acc EXCEPT !.ret_type = _node_text(child)]
    ELSE IF child.type = "function_declarator"
    THEN LET np == Cpp_extract_function_declarator(child)
         IN  [acc EXCEPT !.fn_name = np.name, !.fn_params = np.params, !.done = TRUE]
    ELSE acc

\* the methods of one field_declaration_list: the function definitions and the
\* declarations that declare a function
Cpp_methods(body) ==
    LET siblings == Siblings(body)
    IN  Flatten([idx \in 1..Len(siblings) |->
            IF siblings[idx].type = "function_definition"
            THEN << Cpp_extract_function(siblings[idx], Cpp_preceding_doc(siblings, idx)) >>
            ELSE IF siblings[idx].type \in {"declaration", "field_declaration"}
            THEN LET acc == Loop(Cpp_field_step,
                                 [ret_type |-> <<>>, fn_name |-> <<>>, fn_params |-> <<>>,
                                  done |-> FALSE],
                                 siblings[idx].children)
                 IN  IF acc.fn_name = <<>> THEN <<>>
                     ELSE << FunctionSig(acc.fn_name, acc.fn_params, acc.ret_type,
                                         Cpp_preceding_doc(siblings, idx)) >>
            ELSE <<>>])

\* one pass of the loop over node.children in cpp.py _extract_class
Cpp_class_step(acc, child) ==
    IF child.type = "type_identifier" /\ acc.name = <<>>
    THEN [acc EXCEPT !.name = _node_text(child)]
    ELSE IF child.type = "base_class_clause"
    THEN LET subs == ChildrenOfType(child, {"type_identifier"})
         IN  [acc EXCEPT !.bases = @ \o [k \in 1..Len(subs) |-> _node_text(subs[k])]]
    ELSE acc

\* cpp.py _extract_class(node, content_bytes, docstring)
Cpp_extract_class(node, docstring) ==
    LET acc == Loop(Cpp_class_step, [name |-> <<>>, bases |-> <<>>], node.children)
        bodies == ChildrenOfType(node, {"field_declaration_list"})
    IN  ClassSkeleton(acc.name, acc.bases, docstring,
                      IF bodies = <<>> THEN <<>> ELSE Cpp_methods(bodies[Len(bodies)]))

\* the classes, or the functions, found among one list of siblings
Cpp_classes_among(inner) ==
    Flatten([i2 \in 1..Len(inner) |->
        IF inner[i2].type \in {"class_specifier", "struct_specifier"}
        THEN << Cpp_extract_class(inner[i2], Cpp_preceding_doc(inner, i2)) >>
        ELSE <<>>])

Cpp_functions_among(inner) ==
    Flatten([i2 \in 1..Len(inner) |->
        IF inner[i2].type = "function_definition"
        THEN << Cpp_extract_function(inner[i2], Cpp_preceding_doc(inner, i2)) >>
        ELSE <<>>])

\* mutant: the declaration lists of the namespaces nested in the namespace are
\* explored as well
RECURSIVE Cpp_namespace_lists_deep(_)
Cpp_namespace_lists_deep(node) ==
    LET lists == ChildrenOfType(node, {"declaration_list"})
    IN  Flatten([k \in 1..Len(lists) |->
            << Siblings(lists[k]) >> \o
            Flatten([j \in 1..Len(lists[k].children) |->
                IF lists[k].children[j].type = "namespace_definition"
                THEN Cpp_namespace_lists_deep(lists[k].children[j]) ELSE <<>>])])

\* the declaration lists of one namespace_definition, as lists of siblings
Cpp_namespace_lists(node) ==
    LET lists == ChildrenOfType(node, {"declaration_list"})
    IN  [k \in 1..Len(lists) |-> Siblings(lists[k])]

\* the path of one preproc_include, without quotes or angle brackets
Cpp_include(node) ==
    LET subs == ChildrenOfType(node, {"string_literal", "system_lib_string"})
    IN  [k \in 1..Len(subs) |-> StripChars(Strip(_node_text(subs[k])), {DQ, "<", ">"})]

\* mutant: what a namespace holds is collected after the walk, behind the
\* top-level entries
CppExtractor_extract_tree_namespaces_last(file_name, root) ==
    LET siblings == Siblings(root)
        n == Len(siblings)
        spaces == Flatten([idx \in 1..n |->
                      IF siblings[idx].type = "namespace_definition"
                      THEN Cpp_namespace_lists(siblings[idx]) ELSE <<>>])
    IN  CodeSkeleton(file_name, Str_Cpp, <<>>,
            Flatten([idx \in 1..n |->
                IF siblings[idx].type = "preproc_include"
                THEN Cpp_include(siblings[idx]) ELSE <<>>]),
            Cpp_classes_among(siblings)
            \o Flatten([k \in 1..Len(spaces) |-> Cpp_classes_among(spaces[k])]),
            Cpp_functions_among(siblings)
            \o Flatten([k \in 1..Len(spaces) |-> Cpp_functions_among(spaces[k])]))

\* CppExtractor.extract, the walk over the root's children
CppExtractor_extract_tree(file_name, root) ==
    LET siblings == Siblings(root)
        n == Len(siblings)
        spaces(idx) == Cpp_namespace_lists(siblings[idx])
    IN  CodeSkeleton(file_name, Str_Cpp, <<>>,
            Flatten([idx \in 1..n |->
                IF siblings[idx].type = "preproc_include"
                THEN Cpp_include(siblings[idx]) ELSE <<>>]),
            Flatten([idx \in 1..n |->
                IF siblings[idx].type \in {"class_specifier", "struct_specifier"}
                THEN << Cpp_extract_class(siblings[idx], Cpp_preceding_doc(siblings, idx)) >>
                ELSE IF siblings[idx].type = "namespace_definition"
                THEN Flatten([k \in 1..Len(spaces(idx)) |-> Cpp_classes_among(spaces(idx)[k])])
                ELSE <<>>]),
            Flatten([idx \in 1..n |->
                IF siblings[idx].type = "function_definition"
                THEN << Cpp_extract_function(siblings[idx], Cpp_preceding_doc(siblings, idx)) >>
                ELSE IF siblings[idx].type = "namespace_definition"
                THEN Flatten([k \in 1..Len(spaces(idx)) |-> Cpp_functions_among(spaces(idx)[k])])
                ELSE <<>>]))

(***************************************************************************)
(* C++ sources, as the trees tree-sitter-cpp gives                         *)
(***************************************************************************)
\* int <name>(int x) { }
Cpp_src_function(name) ==
    Node("function_definition",
         << Leaf("primitive_type", <<"i", "n", "t">>),
            Node("function_declarator",
                 << Leaf("identifier", name), Leaf("parameter_list", <<"(", "i", "n", "t", SP, "x", ")">>) >>),
            Node("compound_statement", <<>>) >>)

\* int <name>(<unparsed text> { }
Cpp_src_function_error(name) ==
    Node("function_definition",
         << Leaf("primitive_type", <<"i", "n", "t">>),
            Node("function_declarator", << Leaf("identifier", name), ErrorNode >>),
            Node("compound_statement", <<>>) >>)

\* class <name> : public <name>1, public <name>2 {
\*   /** d1 */ int <name>3(int x) { }
\*   <unparsed text>
\*   int <name>5(int x);
\*   class <name>6 { int <name>61(int x) { } };
\* };
Cpp_src_class(name) ==
    Node("class_specifier",
         << Token("class"), Leaf("type_identifier", name),
            Node("base_class_clause",
                 << Token(":"), Token("access_specifier"),
                    Leaf("type_identifier", name \o <<"1">>), Token(","),
                    Token("access_specifier"), Leaf("type_identifier", name \o <<"2">>) >>),
            Node("field_declaration_list",
                 << Token("{"), Leaf("comment", <<"/", "*", "*", SP, "d", "1", SP, "*", "/">>),
                    Cpp_src_function(name \o <<"3">>), ErrorNode,
                    Node("field_declaration",
                         << Leaf("primitive_type", <<"i", "n", "t">>),
                            Node("function_declarator",
                                 << Leaf("field_identifier", name \o <<"5">>),
                                    Leaf("parameter_list", <<"(", "i", "n", "t", SP, "x", ")">>) >>),
                            Token(";") >>),
                    Node("field_declaration",
                         << Node("class_specifier",
                                 << Token("class"), Leaf("type_identifier", name \o <<"6">>),
                                    Node("field_declaration_list",
                                         << Token("{"), Cpp_src_function(name \o <<"6", "1">>),
                                            Token("}") >>) >>),
                            Token(";") >>),
                    Token("}") >>) >>)

\* namespace ns {
\*   int n<i>1(int x) { }
\*   /** d2 */ class n<i>3 ... ;
\*   namespace in { int n<i>41(int x) { } }
\*   /** d5 */ int n<i>6(int x) { }
\* }
Cpp_src_namespace(i) ==
    Node("namespace_definition",
         << Token("namespace"), Leaf("namespace_identifier", <<"n", "s">>),
            Node("declaration_list",
                 << Token("{"), Cpp_src_function(Ident2(i, 1)),
                    Leaf("comment", <<"/", "*", "*", SP, "d", "2", SP, "*", "/">>), Cpp_src_class(Ident2(i, 3)),
                    Node("namespace_definition",
                         << Token("namespace"), Leaf("namespace_identifier", <<"i", "n">>),
                            Node("declaration_list",
                                 << Token("{"), Cpp_src_function(Ident2(i, 4) \o <<"1">>),
                                    Token("}") >>) >>),
                    Leaf("comment", <<"/", "*", "*", SP, "d", "5", SP, "*", "/">>), Cpp_src_function(Ident2(i, 6)),
                    Token("}") >>) >>)

Cpp_kinds ==
    {"include", "comment", "plain_comment", "class", "function", "function_error",
     "namespace", "error"}

\* the i-th top-level node of a C++ source
Cpp_src(kind, i) ==
    CASE kind = "include" ->
             Node("preproc_include",
                  << Token("#include"), Leaf("system_lib_string", <<"<">> \o Ident(i) \o <<">">>) >>)
      [] kind = "comment" -> Leaf("comment", <<"/", "*", "*", SP, "d">> \o <<Digits[i]>> \o <<SP, "*", "/">>)
      [] kind = "plain_comment" -> Leaf("comment", <<"/", "*", SP, "d">> \o <<Digits[i]>> \o <<SP, "*", "/">>)
      [] kind = "class" -> Cpp_src_class(Ident(i))
      [] kind = "function" -> Cpp_src_function(Ident(i))
      [] kind = "function_error" -> Cpp_src_function_error(Ident(i))
      [] kind = "namespace" -> Cpp_src_namespace(i)
      [] OTHER -> ErrorNode

(***************************************************************************)
(* The adapters on syntax trees: one source per behaviour, one extract call *)
(***************************************************************************)
MaxSiblings == 3

\* the sequences of at most n of the kinds
KindSeqs(kinds, n) == UNION {[1..m -> kinds] : m \in 0..n}

\* the languages with an adapter
TreeLangs == {"go", "rust", "python", "javascript", "typescript", "java", "cpp"}

\* the kinds of top-level node of the sources of a language
Kinds(lang) ==
    CASE lang = "go" -> Go_kinds
      [] lang = "rust" -> Rust_kinds
      [] lang = "python" -> Python_kinds
      [] lang = "java" -> Java_kinds
      [] lang = "cpp" -> Cpp_kinds
      [] OTHER -> JsTs_kinds

\* the type of the root node of a grammar
RootType(lang) ==
    CASE lang \in {"go", "rust"} -> "source_file"
      [] lang = "python" -> "module"
      [] lang = "cpp" -> "translation_unit"
      [] OTHER -> "program"

\* the i-th top-level node of a source of the language
Src(lang, kind, i) ==
    CASE lang = "go" -> Go_src(kind, i)
      [] lang = "rust" -> Rust_src(kind, i)
      [] lang = "python" -> Python_src(kind, i)
      [] lang = "java" -> Java_src(kind, i)
      [] lang = "cpp" -> Cpp_src(kind, i)
      [] OTHER -> JsTs_src(lang, kind, i)

\* the parse tree of a source: the root node over the top-level nodes the kinds
\* stand for
TreeOf(lang, ks) ==
    [lang |-> lang,
     root |-> Node(RootType(lang), [i \in 1..Len(ks) |-> Src(lang, ks[i], i)])]

\* the name of the file a source of the language is read from
TreeFile(lang) ==
    <<"a", ".">> \o
    (CASE lang = "go" -> <<"g", "o">>
       [] lang = "rust" -> <<"r", "s">>
       [] lang = "python" -> <<"p", "y">>
       [] lang = "javascript" -> <<"j", "s">>
       [] lang = "typescript" -> <<"t", "s">>
       [] lang = "java" -> <<"j", "a", "v", "a">>
       [] OTHER -> <<"c", "p", "p">>)

\* a source has been parsed; no adapter has walked its tree yet
TreeInit ==
    /\ TextIdle
    /\ RegistryInit
    /\ last = NoCall
    /\ pin = NoCall
    /\ thr = [t \in Threads |-> IdleThread]
    /\ \E lang \in TreeLangs : \E ks \in KindSeqs(Kinds(lang), MaxSiblings) :
         tree = TreeOf(lang, ks)

\* extract has returned for the tree
Extracted == skel # EmptySkeleton

\* <adapter>.extract(file_name, content), from root = tree.root_node on
ExtractGo ==
    /\ tree.lang = "go" /\ ~Extracted
    /\ skel' = GoExtractor_extract_tree(TreeFile(tree.lang), tree.root)
    /\ UNCHANGED <<rendered, verbose, text, registryVars, last, pin, thr, tree>>

ExtractRust ==
    /\ tree.lang = "rust" /\ ~Extracted
    /\ skel' = RustExtractor_extract_tree(TreeFile(tree.lang), tree.root)
    /\ UNCHANGED <<rendered, verbose, text, registryVars, last, pin, thr, tree>>

ExtractPython ==
    /\ tree.lang = "python" /\ ~Extracted
    /\ skel' = PythonExtractor_extract_tree(TreeFile(tree.lang), tree.root)
    /\ UNCHANGED <<rendered, verbose, text, registryVars, last, pin, thr, tree>>

ExtractJsTs ==
    /\ tree.lang \in {"javascript", "typescript"} /\ ~Extracted
    /\ skel' = JsTsExtractor_extract_tree(tree.lang, TreeFile(tree.lang), tree.root)
    /\ UNCHANGED <<rendered, verbose, text, registryVars, last, pin, thr, tree>>

ExtractJava ==
    /\ tree.lang = "java" /\ ~Extracted
    /\ skel' = JavaExtractor_extract_tree(TreeFile(tree.lang), tree.root)
    /\ UNCHANGED <<rendered, verbose, text, registryVars, last, pin, thr, tree>>

ExtractCpp ==
    /\ tree.lang = "cpp" /\ ~Extracted
    /\ skel' = CppExtractor_extract_tree(TreeFile(tree.lang), tree.root)
    /\ UNCHANGED <<rendered, verbose, text, registryVars, last, pin, thr, tree>>

TreeNext ==
    \/ ExtractGo
    \/ ExtractRust
    \/ ExtractPython
    \/ ExtractJsTs
    \/ ExtractJava
    \/ ExtractCpp

SpecTree == TreeInit /\ [][TreeNext]_vars

(***************************************************************************)
(* Claims on the adapters                                                  *)
(***************************************************************************)
\* the place in the source a name was declared at: the digits of the name, the
\* position of the top-level node first
PlaceOf(name) ==
    LET ds == SelectSeq(name, LAMBDA ch : \E d \in 1..Len(Digits) : Digits[d] = ch)
    IN  [k \in 1..Len(ds) |-> CHOOSE d \in 1..Len(Digits) : Digits[d] = ds[k]]

\* the node at place p starts earlier in the source than the node at place q
StartsEarlier(p, q) ==
    \E k \in 1..(Len(q)) :
       /\ \A j \in 1..(k - 1) : j <= Len(p) /\ p[j] = q[j]
       /\ \/ k = Len(p) + 1
          \/ k <= Len(p) /\ p[k] < q[k]

InSourceOrder(names) ==
    \A a, b \in 1..Len(names) : a < b => StartsEarlier(PlaceOf(names[a]), PlaceOf(names[b]))

NamesOf(entries) == [k \in 1..Len(entries) |-> entries[k].name]

\* C13: in the skeleton an adapter returns, imports, classes, functions, the
\* methods of each class and the bases of each class are in the order in which
\* their nodes start in the source, entries from inside a C++ namespace included
C13_SourceOrder ==
    Extracted =>
        /\ InSourceOrder(skel.imports)
        /\ InSourceOrder(NamesOf(skel.classes))
        /\ InSourceOrder(NamesOf(skel.functions))
        /\ \A c \in 1..Len(skel.classes) :
              /\ InSourceOrder(NamesOf(skel.classes[c].methods))
              /\ InSourceOrder(skel.classes[c].bases)

\* a C++ source with a namespace between two top-level functions has been
\* extracted, and a class with several bases and methods with it
C13_Witness ==
    /\ Extracted
    /\ tree.lang = "cpp"
    /\ \E a, b, c \in 1..Len(skel.functions) :
          /\ a < b /\ b < c
          /\ Len(skel.functions[a].name) = 2
          /\ Len(skel.functions[b].name) = 3
          /\ Len(skel.functions[c].name) = 2
    /\ \E c \in 1..Len(skel.classes) :
          Len(skel.classes[c].bases) >= 2 /\ Len(skel.classes[c].methods) >= 2

\* the function and method declarations among the top-level nodes of the tree
Go_declarations ==
    SelectSeq(tree.root.children,
              LAMBDA c : c.type \in {"function_declaration", "method_declaration"})

\* the parameter lists of a declaration, in source order: for a method the
\* receiver, then its own parameters, then a parenthesized result list
ParameterLists(node) == ChildrenOfType(node, {"parameter_list"})

\* the text between the parentheses of a list
Between(node) == SubSeq(_node_text(node), 2, Len(_node_text(node)) - 1)

\* the text between the parentheses of the declaration's own parameter list
OwnParams(node) ==
    Between(ParameterLists(node)[IF node.type = "method_declaration" THEN 2 ELSE 1])

\* the text between the parentheses of a method's receiver list
Receiver(node) == Between(ParameterLists(node)[1])

Contains(s, sub) == \E i \in 1..(Len(s) - Len(sub) + 1) : SubSeq(s, i, i + Len(sub) - 1) = sub

\* C14: for a Go method declaration the reported params are the text of the
\* method's own parameter list only, and never contain the receiver
C14_MethodParams ==
    (Extracted /\ tree.lang = "go") =>
        /\ Len(skel.functions) = Len(Go_declarations)
        /\ \A k \in 1..Len(Go_declarations) :
              Go_declarations[k].type = "method_declaration" =>
                  /\ skel.functions[k].params = OwnParams(Go_declarations[k])
                  /\ ~Contains(skel.functions[k].params, Receiver(Go_declarations[k]))

\* C17: for every Go function and method the reported params are the text
\* between the parentheses of the declaration's own parameter list, also when
\* that list is empty and a parenthesized result list follows it
C17_OwnParamsOnly ==
    (Extracted /\ tree.lang = "go") =>
        /\ Len(skel.functions) = Len(Go_declarations)
        /\ \A k \in 1..Len(Go_declarations) :
              skel.functions[k].params = OwnParams(Go_declarations[k])

\* the type declarations and impl blocks among the top-level nodes of the tree
Rust_type_nodes ==
    SelectSeq(tree.root.children,
              LAMBDA c : c.type \in {"struct_item", "trait_item", "enum_item", "impl_item"})

\* the type the methods of an impl block are attached to: the type after `for`,
\* or the only type of an inherent impl
TargetTypeName(node) ==
    LET types == ChildrenOfType(node, {"type_identifier"})
    IN  _node_text(types[Len(types)])

\* the names of the functions of an impl block, in source order
BlockFunctionNames(node) ==
    LET lists == ChildrenOfType(node, {"declaration_list"})
        fns == Flatten([k \in 1..Len(lists) |-> ChildrenOfType(lists[k], {"function_item"})])
    IN  [k \in 1..Len(fns) |-> _node_text(ChildrenOfType(fns[k], {"identifier"})[1])]

\* C15: every Rust impl block is a class named `impl <TargetTypeName>`, the type
\* its methods are attached to, holding the block's functions in source order,
\* and a struct, trait or enum declaration has no methods
C15_ImplNamedAfterTarget ==
    (Extracted /\ tree.lang = "rust") =>
        /\ Len(skel.classes) = Len(Rust_type_nodes)
        /\ \A k \in 1..Len(Rust_type_nodes) :
              IF Rust_type_nodes[k].type = "impl_item"
              THEN /\ skel.classes[k].name =
                          <<"i", "m", "p", "l", SP>> \o TargetTypeName(Rust_type_nodes[k])
                   /\ NamesOf(skel.classes[k].methods) = BlockFunctionNames(Rust_type_nodes[k])
              ELSE skel.classes[k].methods = <<>>

\* the tree without its error-recovery nodes: the well-formed nodes alone
RECURSIVE Prune(_)
Prune(node) ==
    LET kept == SelectSeq(node.children, LAMBDA c : c.type # "ERROR")
    IN  [node EXCEPT !.children = [k \in 1..Len(kept) |-> Prune(kept[k])]]

\* the tree with a well-formed token that no adapter reads in the place of each
\* error-recovery node: the well-formed nodes, as far apart as they are
RECURSIVE Neutral(_)
Neutral(node) ==
    IF node.type = "ERROR" THEN Token(";")
    ELSE [node EXCEPT !.children = [k \in 1..Len(node.children) |-> Neutral(node.children[k])]]

\* what the adapter of the language returns for a tree
ExtractOf(lang, root) ==
    CASE lang = "go" -> GoExtractor_extract_tree(TreeFile(lang), root)
      [] lang = "rust" -> RustExtractor_extract_tree(TreeFile(lang), root)
      [] lang = "python" -> PythonExtractor_extract_tree(TreeFile(lang), root)
      [] lang = "java" -> JavaExtractor_extract_tree(TreeFile(lang), root)
      [] lang = "cpp" -> CppExtractor_extract_tree(TreeFile(lang), root)
      [] OTHER -> JsTsExtractor_extract_tree(lang, TreeFile(lang), root)

\* a field is what the well-formed structure gives, or is left empty
RecoveredOrEmpty(field, wellformed) == field = wellformed \/ field = <<>>

\* every function is there, each field recovered or left empty
SameFunctions(fs, present, wellformed) ==
    /\ NamesOf(fs) = NamesOf(present)
    /\ Len(fs) = Len(wellformed)
    /\ \A k \in 1..Len(fs) :
          /\ RecoveredOrEmpty(fs[k].params, wellformed[k].params)
          /\ RecoveredOrEmpty(fs[k].return_type, wellformed[k].return_type)
          /\ RecoveredOrEmpty(fs[k].docstring, wellformed[k].docstring)

HasError(node) == \E k \in 1..Len(node.children) : node.children[k].type = "ERROR"

\* C16: extract returns a skeleton for every tree; error-recovery nodes among
\* the top-level siblings or inside a type body are skipped, every well-formed
\* import, type and function next to them is still extracted, and a field that
\* cannot be recovered is empty
C16_ErrorsSkipped ==
    /\ ~Extracted => DOMAIN ExtractOf(tree.lang, tree.root) = DOMAIN EmptySkeleton
    /\ Extracted =>
          LET present == ExtractOf(tree.lang, Prune(tree.root))
              wellformed == ExtractOf(tree.lang, Neutral(tree.root))
          IN  /\ skel.file_name = present.file_name
              /\ skel.language = present.language
              /\ RecoveredOrEmpty(skel.module_doc, wellformed.module_doc)
              /\ skel.imports = present.imports
              /\ SameFunctions(skel.functions, present.functions, wellformed.functions)
              /\ NamesOf(skel.classes) = NamesOf(present.classes)
              /\ Len(skel.classes) = Len(wellformed.classes)
              /\ \A c \in 1..Len(skel.classes) :
                    /\ skel.classes[c].bases = present.classes[c].bases
                    /\ RecoveredOrEmpty(skel.classes[c].docstring,
                                        wellformed.classes[c].docstring)
                    /\ SameFunctions(skel.classes[c].methods, present.classes[c].methods,
                                     wellformed.classes[c].methods)

\* a source with unparsed text between a type whose body holds unparsed text
\* between two methods and a function whose parameters are unparsed text has
\* been extracted
C16_Witness ==
    /\ Extracted
    /\ Len(tree.root.children) = 3
    /\ tree.root.children[2].type = "ERROR"
    /\ \E k \in 1..Len(tree.root.children[1].children) :
          HasError(tree.root.children[1].children[k])
    /\ \E k \in 1..Len(tree.root.children[3].children) :
          HasError(tree.root.children[3].children[k])
    /\ Len(skel.classes) = 1
    /\ Len(skel.classes[1].methods) >= 2
    /\ Len(skel.functions) = 1
    /\ skel.functions[1].name # <<>>
    /\ skel.functions[1].params = <<>>

\* the statements of the body of a function node, in source order
Statements(node) ==
    LET bodies == ChildrenOfType(node, {"block", "statement_block"})
    IN  IF bodies = <<>> THEN <<>>
        ELSE SelectSeq(bodies[1].children, LAMBDA c : c.type \notin {"{", "}"})

\* the statement is a string literal standing alone
IsStringStatement(stmt) ==
    /\ stmt.type = "expression_statement"
    /\ \E k \in 1..Len(stmt.children) : stmt.children[k].type \in {"string", "concatenated_string"}

\* the name a declaration node declares
DeclaredName(node) ==
    _node_text(ChildrenOfType(node, {"identifier", "field_identifier"})[1])

\* the docstring the skeleton reports for the function of that name
ReportedDoc(name) ==
    LET k == CHOOSE k \in 1..Len(skel.functions) : skel.functions[k].name = name
    IN  skel.functions[k].docstring

IsReported(name) == \E k \in 1..Len(skel.functions) : skel.functions[k].name = name

\* C18: for Python and JS/TS a function whose body does not begin with a string
\* literal statement, and that no comment precedes, has no docstring: no later
\* string literal statement of the body is reported
C18_FirstStatementOnly ==
    (Extracted /\ tree.lang \in {"python", "javascript", "typescript"}) =>
        \A idx \in 1..Len(tree.root.children) :
            LET node == tree.root.children[idx]
            IN  (/\ node.type \in {"function_definition", "function_declaration"}
                 /\ idx > 1 => tree.root.children[idx - 1].type # "comment"
                 /\ Statements(node) # <<>>
                 /\ ~IsStringStatement(Statements(node)[1]))
                => (IsReported(DeclaredName(node)) /\ ReportedDoc(DeclaredName(node)) = <<>>)

\* the top-level statements of a Python source, comments aside
Python_statements ==
    SelectSeq(tree.root.children, LAMBDA c : c.type \notin {"comment", "newline"})

\* a string literal without its prefix letters and its quotes
Unquoted(literal) ==
    StripChars(LStripChars(literal, {"r", "R", "b", "B", "u", "U", "f", "F"}), {DQ, "'"})

\* C19: Python module_doc is non-empty only if the first statement of the file,
\* comments aside, is a string literal standing alone, and then it is that
\* string without its quotes
C19_ModuleDocFirstOnly ==
    (Extracted /\ tree.lang = "python") =>
        IF Python_statements # <<>> /\ IsStringStatement(Python_statements[1])
        THEN skel.module_doc =
                 Strip(Unquoted(_node_text(
                     ChildrenOfType(Python_statements[1], {"string", "concatenated_string"})[1])))
        ELSE skel.module_doc = <<>>

\* the node is a single-line doc comment: in Rust a line comment with a
\* doc_comment child, in Go a comment
IsDocComment(node) ==
    IF tree.lang = "rust"
    THEN node.type = "line_comment" /\ ChildrenOfType(node, {"doc_comment"}) # <<>>
    ELSE node.type = "comment"

\* the text of a doc comment without its marker
DocCommentText(node) ==
    IF tree.lang = "rust"
    THEN Strip(_node_text(ChildrenOfType(node, {"doc_comment"})[1]))
    ELSE Strip(LStripChars(Strip(_node_text(node)), {"/"}))

\* the run of doc comments that ends at sibling i, each directly above what
\* follows it: no ordinary comment and no blank line in between
RECURSIVE DocRun(_, _)
DocRun(siblings, i) ==
    IF i >= 1 /\ IsDocComment(siblings[i]) /\ ~siblings[i + 1].gap
    THEN DocRun(siblings, i - 1) \o << DocCommentText(siblings[i]) >>
    ELSE <<>>

\* C20: for Rust and Go the docstring of a function is the run of consecutive
\* single-line doc comments directly above it, markers stripped, in source
\* order; the run stops at the first ordinary comment and at the first blank gap
C20_DocRunStopsAtGap ==
    (Extracted /\ tree.lang \in {"rust", "go"}) =>
        \A idx \in 1..Len(tree.root.children) :
            LET node == tree.root.children[idx]
            IN  node.type \in {"function_item", "function_declaration", "method_declaration"}
                => /\ IsReported(DeclaredName(node))
                   /\ ReportedDoc(DeclaredName(node)) =
                          Strip(Join(DocRun(tree.root.children, idx - 1), <<NL>>))

(***************************************************************************)
(* Claims on doc comments, namespaces, bindings and nesting                *)
(***************************************************************************)
CommentTypes == {"comment", "line_comment", "block_comment"}

CommentAdapters == {"go", "rust", "java", "cpp", "javascript", "typescript"}

\* the name a node declares: the first identifier under it, in source order
RECURSIVE FirstName(_)
FirstName(node) ==
    IF node.type \in {"identifier", "field_identifier", "type_identifier",
                      "property_identifier", "namespace_identifier"}
    THEN _node_text(node)
    ELSE LET under == [k \in 1..Len(node.children) |-> FirstName(node.children[k])]
             named == SelectSeq(under, LAMBDA n : n # <<>>)
         IN  IF named = <<>> THEN <<>> ELSE named[1]

\* the docstrings reported under a name among some entries
DocsOf(entries, name) ==
    {entries[k].docstring : k \in {k \in 1..Len(entries) : entries[k].name = name}}

\* everything a comment node says: its text and the text of its children
CommentText(node) ==
    _node_text(node) \o Flatten([k \in 1..Len(node.children) |-> _node_text(node.children[k])])

\* the comments of the siblings that stand directly above sibling idx, nothing
\* but comments in between
Adjacent(siblings, idx) ==
    {j \in 1..(idx - 1) : \A m \in j..(idx - 1) : siblings[m].type \in CommentTypes}

\* no docstring reported for a declaration among the siblings holds what a
\* comment says that is not directly above the declaration
OnlyAdjacentComments(siblings, entries) ==
    \A idx \in 1..Len(siblings) :
        siblings[idx].type \notin CommentTypes =>
            \A doc \in DocsOf(entries, FirstName(siblings[idx])) :
                \A j \in 1..Len(siblings) :
                    (/\ siblings[j].type \in CommentTypes
                     /\ j \notin Adjacent(siblings, idx))
                    => \A d \in 1..Len(Digits) :
                          Contains(CommentText(siblings[j]), <<"d", Digits[d]>>)
                          => ~Contains(doc, <<"d", Digits[d]>>)

\* the siblings of the body of a type node
BodyOf(node) ==
    LET bodies == ChildrenOfType(node, {"class_body", "field_declaration_list",
                                        "declaration_list", "interface_body"})
    IN  IF bodies = <<>> THEN <<>> ELSE bodies[1].children

\* the methods reported for the classes of a name
MethodsOf(name) ==
    Flatten([k \in 1..Len(skel.classes) |->
        IF skel.classes[k].name = name THEN skel.classes[k].methods ELSE <<>>])

\* C21: for Go, Rust, Java, C/C++ and JS/TS a comment is part of a declaration's
\* docstring only if it stands directly above the declaration among its
\* siblings: a comment with a non-comment node between it and the declaration
\* is never attached, at top level and inside a type body
C21_OnlyAdjacentComment ==
    (Extracted /\ tree.lang \in CommentAdapters) =>
        /\ OnlyAdjacentComments(tree.root.children, skel.functions \o skel.classes)
        /\ \A idx \in 1..Len(tree.root.children) :
              OnlyAdjacentComments(BodyOf(tree.root.children[idx]),
                                   MethodsOf(FirstName(tree.root.children[idx])))

\* a source with a doc comment, some other node, then a declaration has been
\* extracted, and the declaration is reported without docstring
C21_Witness ==
    /\ Extracted
    /\ tree.lang \in CommentAdapters
    /\ Len(tree.root.children) = 3
    /\ tree.root.children[1].type \in CommentTypes
    /\ Contains(CommentText(tree.root.children[1]), <<"d", "1">>)
    /\ tree.root.children[2].type \notin CommentTypes
    /\ DocsOf(skel.functions \o skel.classes, FirstName(tree.root.children[3])) = {<<>>}

\* the body of a doc block comment as stated: the text between the opening
\* marker and the closing marker, the leading star of each line removed
StatedDocBody(comment_text) ==
    LET raw == Strip(comment_text)
        body == SubSeq(raw, 4, Len(raw) - 2)
        parts == Split(body, NL)
        lines == [k \in 1..Len(parts) |-> Strip(LStripChars(Strip(parts[k]), {"*"}))]
    IN  Strip(Join(SelectSeq(lines, LAMBDA l : l # <<>>), <<NL>>))

\* the comment carries the distinguished doc prefix marker
IsDocBlock(node) == StartsWithStr(Strip(_node_text(node)), <<"/", "*", "*">>)

\* C22: for Java, C/C++ and JS/TS a block comment that carries the marker /**
\* and stands directly above a declaration gives the docstring, markers and
\* leading stars removed; a comment above a declaration that does not carry the
\* marker gives no docstring
C22_DocBlockOnly ==
    (Extracted /\ tree.lang \in {"java", "cpp", "javascript", "typescript"}) =>
        \A idx \in 2..Len(tree.root.children) :
            LET above == tree.root.children[idx - 1]
            IN  above.type \in CommentTypes =>
                    \A doc \in DocsOf(skel.functions \o skel.classes,
                                      FirstName(tree.root.children[idx])) :
                        IF IsDocBlock(above)
                        THEN doc = StatedDocBody(_node_text(above))
                        ELSE \A d \in 1..Len(Digits) :
                                 Contains(CommentText(above), <<"d", Digits[d]>>)
                                 => ~Contains(doc, <<"d", Digits[d]>>)

\* what stands directly inside a namespace block, a token in the place of each
\* namespace nested in it
DirectlyInside(node) ==
    LET inner == Flatten([k \in 1..Len(node.children) |->
                     IF node.children[k].type = "declaration_list"
                     THEN node.children[k].children ELSE <<>>])
    IN  [k \in 1..Len(inner) |->
            IF inner[k].type = "namespace_definition" THEN Token(";") ELSE inner[k]]

\* the source with the contents of each top-level namespace block written at
\* top level in the place of the block
Lifted(root) ==
    [root EXCEPT !.children =
        Flatten([k \in 1..Len(root.children) |->
            IF root.children[k].type = "namespace_definition"
            THEN DirectlyInside(root.children[k]) ELSE << root.children[k] >>])]

\* the names declared inside the namespaces nested in a namespace block
NestedNames(node) ==
    LET inner == Flatten([k \in 1..Len(node.children) |->
                     IF node.children[k].type = "declaration_list"
                     THEN node.children[k].children ELSE <<>>])
    IN  UNION {{FirstName(BodyOf(inner[k])[j]) : j \in 1..Len(BodyOf(inner[k]))} :
                  k \in {k \in 1..Len(inner) : inner[k].type = "namespace_definition"}}

\* C23: in C/C++ a class, struct or function declared directly inside a
\* top-level namespace block is collected exactly as a top-level one, its doc
\* comment taken from its preceding sibling inside the block, and nothing
\* declared inside a namespace nested in the block is collected
C23_OneNamespaceLevel ==
    (Extracted /\ tree.lang = "cpp") =>
        /\ skel.classes = ExtractOf("cpp", Lifted(tree.root)).classes
        /\ skel.functions = ExtractOf("cpp", Lifted(tree.root)).functions
        /\ \A k \in 1..Len(tree.root.children) :
              \A name \in NestedNames(tree.root.children[k]) \ {<<>>} :
                  /\ DocsOf(skel.functions \o skel.classes, name) = {}

\* a C++ source with a namespace block has been extracted: a function of the
\* block is reported with the doc comment above it inside the block, and the
\* block holds a nested namespace with a function of its own
C23_Witness ==
    /\ Extracted
    /\ tree.lang = "cpp"
    /\ \E k \in 1..Len(tree.root.children) :
          /\ tree.root.children[k].type = "namespace_definition"
          /\ NestedNames(tree.root.children[k]) \ {<<>>} # {}
          /\ \E j \in 1..Len(BodyOf(tree.root.children[k])) :
                /\ BodyOf(tree.root.children[k])[j].type = "function_definition"
                /\ DocsOf(skel.functions, FirstName(BodyOf(tree.root.children[k])[j]))
                       = {<<"d", "5">>}

\* the variable declarations at top level: the let, const and var statements
\* among the root's children, exported or not
TopLevelBindings(root) ==
    LET binding == {"lexical_declaration", "variable_declaration"}
    IN  Flatten([k \in 1..Len(root.children) |->
            IF root.children[k].type \in binding THEN << root.children[k] >>
            ELSE IF root.children[k].type = "export_statement"
            THEN ChildrenOfType(root.children[k], binding)
            ELSE <<>>])

\* the names a declaration binds to an arrow function: a declarator or a class
\* field starts with the name it binds
ArrowBindings(nodes) ==
    Flatten([k \in 1..Len(nodes) |->
        IF /\ nodes[k].type \in {"variable_declarator", "field_definition",
                                 "public_field_definition"}
           /\ ChildrenOfType(nodes[k], {"arrow_function"}) # <<>>
        THEN << _node_text(nodes[k].children[1]) >>
        ELSE <<>>])

\* the names that stand inside the arrow functions some declarations bind
InsideArrows(nodes) ==
    UNION {{FirstName(arrow) : arrow \in
               {nodes[k].children[j] : j \in {j \in 1..Len(nodes[k].children) :
                    nodes[k].children[j].type = "arrow_function"}}} :
           k \in 1..Len(nodes)} \ {<<>>}

\* the declarators of the top-level variable declarations
TopLevelDeclarators(root) ==
    Flatten([k \in 1..Len(TopLevelBindings(root)) |-> TopLevelBindings(root)[k].children])

\* C24: in JS/TS every arrow function bound by a top-level variable binding is
\* reported as a function, every arrow function bound by a class field as a
\* method of the class, under the identifier of the binding or field and never
\* under a name from inside the arrow function such as its single parameter
C24_ArrowNamedAfterBinding ==
    (Extracted /\ tree.lang \in {"javascript", "typescript"}) =>
        /\ \A k \in 1..Len(ArrowBindings(TopLevelDeclarators(tree.root))) :
              IsReported(ArrowBindings(TopLevelDeclarators(tree.root))[k])
        /\ \A name \in InsideArrows(TopLevelDeclarators(tree.root)) : ~IsReported(name)
        /\ \A idx \in 1..Len(tree.root.children) :
              tree.root.children[idx].type = "class_declaration" =>
                  LET body == BodyOf(tree.root.children[idx])
                      methods == MethodsOf(FirstName(tree.root.children[idx]))
                  IN  /\ \A k \in 1..Len(ArrowBindings(body)) :
                            DocsOf(methods, ArrowBindings(body)[k]) # {}
                      /\ \A name \in InsideArrows(body) : DocsOf(methods, name) = {}

\* the node types that declare a type, and those that declare a function
TypeDeclarations ==
    {"class_definition", "class_declaration", "interface_declaration", "enum_declaration",
     "class_specifier", "struct_specifier", "struct_item", "trait_item", "enum_item",
     "impl_item", "type_spec"}

FunctionDeclarations ==
    {"function_definition", "function_declaration", "generator_function_declaration",
     "method_definition", "method_declaration", "constructor_declaration",
     "function_item", "function_signature_item"}

\* the declarations under a node: the declared name, whether it is a type or a
\* function, and the declarations that enclose it, outermost first
RECURSIVE Declared(_, _)
Declared(node, path) ==
    LET kind == IF node.type \in TypeDeclarations THEN "type"
                ELSE IF node.type \in FunctionDeclarations THEN "function"
                ELSE ""
        below == IF kind = "" THEN path ELSE Append(path, kind)
    IN  (IF kind = "" THEN {}
         ELSE {[name |-> FirstName(node), kind |-> kind, path |-> path]})
        \cup UNION {Declared(node.children[k], below) : k \in 1..Len(node.children)}

\* the names of the declarations of a kind whose enclosing declarations are
\* not the expected ones
Misplaced(kind, expected) ==
    {d.name : d \in {d \in Declared(tree.root, <<>>) : d.kind = kind /\ d.path # expected}}

\* C25: an adapter goes one level into the body of a type: a type declared
\* inside another declaration is never among the classes, a function declared
\* inside a function or method body or inside a nested type is never among the
\* methods of a class, and a function declared inside any declaration is never
\* among the top-level functions
C25_OneBodyLevel ==
    Extracted =>
        /\ \A c \in 1..Len(skel.classes) :
              /\ skel.classes[c].name \notin Misplaced("type", <<>>)
              /\ \A m \in 1..Len(skel.classes[c].methods) :
                    skel.classes[c].methods[m].name \notin Misplaced("function", <<"type">>)
        /\ \A f \in 1..Len(skel.functions) :
              skel.functions[f].name \notin Misplaced("function", <<>>)

\* a source has been extracted in which a class that is reported with methods
\* holds a nested type with a method of its own and a method with a function
\* declared in its body
C25_Witness ==
    /\ Extracted
    /\ \E c \in 1..Len(skel.classes) : skel.classes[c].methods # <<>>
    /\ \E d \in Declared(tree.root, <<>>) : d.kind = "type" /\ d.path = <<"type">>
    /\ \E d \in Declared(tree.root, <<>>) : d.kind = "function" /\ d.path = <<"type", "type">>
    /\ \E d \in Declared(tree.root, <<>>) : d.kind = "function" /\ d.path = <<"type", "function">>

(***************************************************************************)
(* Sources made of import statements, the same module imported again       *)
(***************************************************************************)
MaxImports == 3

\* the modules the sources import
Modules == {<<"a">>, <<"b">>}

\* the statement that imports a module, as the grammar of the language gives it
ImportOf(lang, module) ==
    CASE lang = "go" ->
             Node("import_declaration",
                  << Token("import"),
                     Node("import_spec",
                          << Leaf("interpreted_string_literal", <<DQ>> \o module \o <<DQ>>) >>) >>)
      [] lang = "rust" -> Leaf("use_declaration", <<"u", "s", "e", SP>> \o module \o <<";">>)
      [] lang = "python" ->
             Node("import_statement", << Token("import"), Leaf("dotted_name", module) >>)
      [] lang = "java" ->
             Node("import_declaration",
                  << Token("import"), Leaf("scoped_identifier", <<"p", ".">> \o module), Token(";") >>)
      [] lang = "cpp" ->
             Node("preproc_include",
                  << Token("#include"),
                     Leaf("system_lib_string", <<"<">> \o module \o <<">">>) >>)
      [] OTHER ->
             Node("import_statement",
                  << Token("import"), Leaf("string", <<DQ>> \o module \o <<DQ>>), Token(";") >>)

\* a source of import statements has been parsed; no adapter has walked its
\* tree yet
ImportsInit ==
    /\ TextIdle
    /\ RegistryInit
    /\ last = NoCall
    /\ pin = NoCall
    /\ thr = [t \in Threads |-> IdleThread]
    /\ \E lang \in TreeLangs : \E ms \in KindSeqs(Modules, MaxImports) :
         tree = [lang |-> lang,
                 root |-> Node(RootType(lang),
                               [i \in 1..Len(ms) |-> ImportOf(lang, ms[i])])]

SpecImports == ImportsInit /\ [][TreeNext]_vars

\* the module the k-th statement of the source imports
Imported(k) ==
    CHOOSE module \in Modules :
        \/ Contains(_node_text(tree.root.children[k]), module)
        \/ \E j \in 1..Len(tree.root.children[k].children) :
              \/ Contains(_node_text(tree.root.children[k].children[j]), module)
              \/ \E m \in 1..Len(tree.root.children[k].children[j].children) :
                    Contains(_node_text(tree.root.children[k].children[j].children[m]), module)

\* the statements that import their module for the first time
FirstImports ==
    {k \in 1..Len(tree.root.children) : \A j \in 1..(k - 1) : Imported(j) # Imported(k)}

\* C26: the imports of the JS/TS adapter hold every imported module once, in
\* the order of the first import statement of each; the imports of the other
\* adapters hold one entry for each import statement, a module imported twice
\* being listed twice
C26_OnlyJsTsImportsUnique ==
    Extracted =>
        IF tree.lang \in {"javascript", "typescript"}
        THEN /\ \A a, b \in 1..Len(skel.imports) : a # b => skel.imports[a] # skel.imports[b]
             /\ Len(skel.imports) = Cardinality(FirstImports)
             /\ \A k \in FirstImports :
                   skel.imports[Cardinality({j \in FirstImports : j <= k})] = Imported(k)
        ELSE /\ Len(skel.imports) = Len(tree.root.children)
             /\ \A k \in 1..Len(skel.imports) : Contains(skel.imports[k], Imported(k))

\* a JS/TS source that imports a module, then another, then the first again
\* has been extracted, with two imports reported
C26_Witness ==
    /\ Extracted
    /\ tree.lang \in {"javascript", "typescript"}
    /\ Len(tree.root.children) = 3
    /\ Imported(1) # Imported(2)
    /\ Imported(3) = Imported(1)
    /\ Len(skel.imports) = 2

SingleLine(raw) == Len(Split(Strip(raw), NL)) = 1

\* every text of at most MaxDocLen characters, stripped or not
RawDocs == UNION {StringsOfLen(k) : k \in 0..MaxDocLen}

\* C29: when every class, method and function docstring of the skeleton has a
\* single line after stripping, the verbose and the compact text are the same;
\* the same holds of each docstring of a single line taken alone, stored
\* stripped or not
C29_SingleLineDocsSameText ==
    /\ (\A k \in 1..Len(DocSlots(skel)) : SingleLine(DocSlots(skel)[k].doc))
           => to_text(skel, TRUE) = to_text(skel, FALSE)
    /\ (~rendered /\ Items(skel) = 0) =>
           \A raw \in RawDocs : \A indent \in {Indent1, Indent2} :
               SingleLine(raw) => _doc(raw, indent, TRUE) = _doc(raw, indent, FALSE)

\* a skeleton with a class and a method, each with a docstring of one line,
\* has been serialized in verbose mode
C29_Witness ==
    /\ rendered
    /\ verbose
    /\ \E c \in 1..Len(skel.classes) :
          /\ skel.classes[c].docstring # <<>>
          /\ \E m \in 1..Len(skel.classes[c].methods) :
                skel.classes[c].methods[m].docstring # <<>>
    /\ \A k \in 1..Len(DocSlots(skel)) : SingleLine(DocSlots(skel)[k].doc)
    /\ text = to_text(skel, FALSE)

\* C30: the text to_text returns is never empty, its first line is the header
\* line, and it neither begins nor ends with whitespace or a blank line: for a
\* skeleton without module doc, imports, classes and functions it is the
\* header line alone, and the blank line that closes the last class block is
\* not at its end
C30_TextTrimmed ==
    rendered =>
        /\ text # <<>>
        /\ Split(text, NL)[1] = HeaderLine(skel.file_name, skel.language)
        /\ text[1] \notin Whitespace
        /\ text[Len(text)] \notin Whitespace
        /\ Strip(Split(text, NL)[Len(Split(text, NL))]) # <<>>
        /\ (/\ skel.module_doc = <<>> /\ skel.imports = <<>>
            /\ skel.classes = <<>> /\ skel.functions = <<>>)
               => text = HeaderLine(skel.file_name, skel.language)

\* a skeleton that ends with a class block has been serialized
C30_Witness ==
    /\ rendered
    /\ skel.classes # <<>>
    /\ skel.functions = <<>>
    /\ skel.classes[Len(skel.classes)].methods # <<>>

\* the methods and constructors declared directly in the body of a Java class
JavaMembers(node) ==
    SelectSeq(BodyOf(node),
              LAMBDA n : n.type \in {"method_declaration", "constructor_declaration"})

\* C28: every method and constructor declared directly in a Java class body is
\* reported under its declared identifier, which is not empty; a constructor
\* is reported under the constructor's name with an empty return type
C28_JavaMembersNamed ==
    (Extracted /\ tree.lang = "java") =>
        \A idx \in 1..Len(tree.root.children) :
            tree.root.children[idx].type = "class_declaration" =>
                LET members == JavaMembers(tree.root.children[idx])
                    methods == MethodsOf(FirstName(tree.root.children[idx]))
                IN  /\ Len(methods) = Len(members)
                    /\ \A k \in 1..Len(members) :
                          /\ methods[k].name # <<>>
                          /\ methods[k].name = FirstName(members[k])
                          /\ members[k].type = "constructor_declaration"
                                => methods[k].return_type = <<>>

====
